---- MODULE Spec2Model ----
(***************************************************************************)
(* A model of gforms.Form (src/gforms/form.py) together with the elements  *)
(* it drives (src/gforms/elements.py, elements_base.py, options.py):       *)
(* the page graph, the fill/validate walk with its selected / unvalidated  *)
(* page sets, and the submission protocol.                                 *)
(*                                                                         *)
(* Python strings are sequences of one-character strings, None is the      *)
(* value None, a page is named by its index (Page.SUBMIT by SUBMIT).       *)
(***************************************************************************)
EXTENDS Integers, Sequences, FiniteSets, TLC

VARIABLES
    is_loaded,          \* Form.is_loaded
    pages,              \* Form.pages: the pages with their elements
    selected_pages,     \* Form._selected_pages (page indices)
    unvalidated_pages,  \* Form._unvalidated_pages
    found_full_path,    \* Form._found_full_path
    settings,           \* Form.settings and Form._signin_required
    tokens,             \* Form._fbzx, Form._history, Form._draft
    prefilled_data,     \* Form._prefilled_data: values by entry, an entry being <<page, element>>
    last_op,            \* the public call that ran last, with its arguments
    err,                \* the exception that call raised, or "ok"
    scen,               \* how far the validate / set_value / validate scenario has run
    requests            \* the POST requests the last submit sent, in order

vars == <<is_loaded, pages, selected_pages, unvalidated_pages, found_full_path,
          settings, tokens, prefilled_data, last_op, err, scen, requests>>

-----------------------------------------------------------------------------
(* Bounds of the model. *)

MaxPages == 3
MaxOptions == 3     \* the options of a Checkboxes element
MaxRows == 2        \* the rows of a grid

-----------------------------------------------------------------------------
(* Program constants. *)

FIRST == -1
NEXT == -2
SUBMIT == -3
None == -100

\* The id a document gives its k-th page (k >= 1); page 0 has the id FIRST.
PageId(k) == 1000 + k

NoOp == [op |-> "init", p |-> 0, e |-> 0]

-----------------------------------------------------------------------------
(* Values a caller passes to set_value or returns from a fill callback. *)

Value_EMPTY == [t |-> "EMPTY"]
Value_DEFAULT == [t |-> "DEFAULT"]
Value_UNCHANGED == [t |-> "UNCHANGED"]
PyNone == [t |-> "None"]
Str(s) == [t |-> "str", s |-> s]
Opt(i) == [t |-> "opt", i |-> i]
PyList == [t |-> "list"]
Choices(items) == [t |-> "list", items |-> items]
GridChoices(rows) == [t |-> "grid", rows |-> rows]

ValA == <<"A">>
ValB == <<"B">>
ValC == <<"C">>
ValZ == <<"Z">>
TextA == <<"a">>

-----------------------------------------------------------------------------
(* The document: the flat element list of FB_PUBLIC_LOAD_DATA_. *)

WirePage(k, prev_action) ==
    [type |-> "PAGE", id |-> PageId(k), prev_action |-> prev_action,
     required |-> FALSE, options |-> <<>>]
WireShort(required) ==
    [type |-> "SHORT", id |-> 0, prev_action |-> None,
     required |-> required, options |-> <<>>]
WireDropdown(required, options) ==
    [type |-> "DROPDOWN", id |-> 0, prev_action |-> None,
     required |-> required, options |-> options]
\* An option as options.parse reads it: action = None gives a plain Option.
WireOption(value, action) == [value |-> value, action |-> action]
\* An input with a validator slot: a short text input, checkboxes with
\* their options (other: with an "Other" option), or a grid with its
\* columns as options and rows rows.
WireValidated(type, required, options, other, rows, multichoice, validator) ==
    [type |-> type, id |-> 0, prev_action |-> None, required |-> required,
     options |-> options, other |-> other, rows |-> rows,
     multichoice |-> multichoice, validator |-> validator]

-----------------------------------------------------------------------------
(* Parsing: Form._parse builds the pages in document order. *)

\* A Radio or Scale element: a choice input without a validator, with or
\* (Radio only) without an "Other" option.
WireChoice(type, required, options, other) ==
    [type |-> type, id |-> 0, prev_action |-> None, required |-> required,
     options |-> options, other |-> other, rows |-> 0, multichoice |-> FALSE,
     validator |-> [type |-> "None"]]
\* A Radio element with an "Other" option; other_action is the action of the
\* "Other" option, None when it is a plain Option.
WireRadio(required, options, other_action) ==
    [type |-> "RADIO", id |-> 0, prev_action |-> None, required |-> required,
     options |-> options, other |-> TRUE, rows |-> 0, multichoice |-> FALSE,
     validator |-> [type |-> "None"], other_action |-> other_action]
\* A Time or Date element, and the virtual UserEmail element that Form._parse
\* puts first on the first page when settings.collect_emails is set.
WireTimed(type, required) ==
    [type |-> type, id |-> 0, prev_action |-> None, required |-> required, options |-> <<>>]
WireEmail == WireTimed("EMAIL", TRUE)

NewOption(w) ==
    [value |-> w.value, is_action |-> w.action # None, action |-> w.action,
     next_page |-> None]

RECURSIVE MapSeq(_, _)
MapSeq(s, i) ==
    IF i > Len(s) THEN <<>> ELSE <<NewOption(s[i])>> \o MapSeq(s, i + 1)

NewPage(id, prev_action, index) ==
    [id |-> id, prev_action |-> prev_action, index |-> index,
     next_page |-> None, has_default_next_page |-> TRUE, elements |-> <<>>]

NewElement(w) ==
    [kind |-> w.type, required |-> w.required, options |-> MapSeq(w.options, 1),
     value |-> <<>>, next_page |-> None, is_validated |-> TRUE]

\* A parsed TextInput, Checkboxes, RadioGrid or CheckboxGrid.
NewValidated(w) ==
    [kind |-> w.type, required |-> w.required, options |-> MapSeq(w.options, 1),
     value |-> IF w.type = "GRID" THEN [r \in 1..w.rows |-> <<>>] ELSE <<>>,
     next_page |-> None, is_validated |-> TRUE,
     validator |-> w.validator, other_option |-> w.other,
     other_value |-> PyNone, rows |-> w.rows, multichoice |-> w.multichoice,
     other_action |-> IF "other_action" \in DOMAIN w THEN w.other_action ELSE None,
     other_next_page |-> None]

\* A parsed Time (TimeInput.__init__), Date (DateInput.__init__, with a
\* year field) or UserEmail: no hour, minute, second and no date yet.
NewTimed(w) ==
    [kind |-> w.type, required |-> w.required, options |-> <<>>, value |-> <<>>,
     next_page |-> None, is_validated |-> TRUE,
     hour |-> None, minute |-> None, second |-> None, date |-> <<>>]

PageFirst == NewPage(FIRST, NEXT, 0)

\* The loop of Form._parse over form[ELEMENTS]: a Page element opens a new
\* page and clears _found_full_path, any other element joins the last page.
RECURSIVE ParseElements(_, _, _)
ParseElements(elems, i, st) ==
    IF i > Len(elems) THEN st
    ELSE LET w == elems[i]
             n == Len(st.pages)
         IN IF w.type = "PAGE"
            THEN ParseElements(elems, i + 1,
                     [st EXCEPT !.pages = Append(@, NewPage(w.id, w.prev_action, n)),
                                !.found = FALSE])
            ELSE ParseElements(elems, i + 1,
                     [st EXCEPT !.pages[n].elements =
                                    Append(@, IF "validator" \in DOMAIN w
                                              THEN NewValidated(w)
                                              ELSE IF w.type \in {"TIME", "DATE", "EMAIL"}
                                              THEN NewTimed(w) ELSE NewElement(w))])

-----------------------------------------------------------------------------
(* Graph resolution: Form._resolve_actions, Page._resolve_actions and        *)
(* ActionOption._resolve_action.                                             *)

\* mapping = {page.id: page}; mapping[SUBMIT] = Page.SUBMIT.  A later page
\* with the same id replaces an earlier one; a missing id is a KeyError.
MappingHas(pgs, id) == id = SUBMIT \/ \E k \in 1..Len(pgs) : pgs[k].id = id
Mapping(pgs, id) ==
    IF id = SUBMIT THEN SUBMIT
    ELSE LET ks == {k \in 1..Len(pgs) : pgs[k].id = id}
         IN pgs[CHOOSE k \in ks : \A j \in ks : j <= k].index

\* ActionOption._resolve_action; nxt is the next page in document order.
OptionResolvable(pgs, o, nxt) ==
    ~o.is_action \/ nxt = None \/ o.action = NEXT \/ MappingHas(pgs, o.action)
\* ActionOption._resolve_action that resolves the options of the last page
\* too.
resolve_action_on_last_page(pgs, o, nxt) ==
    IF ~o.is_action THEN o
    ELSE IF o.action = NEXT THEN [o EXCEPT !.next_page = nxt]
    ELSE IF MappingHas(pgs, o.action) THEN [o EXCEPT !.next_page = Mapping(pgs, o.action)]
    ELSE o

resolve_action(pgs, o, nxt) ==
    IF ~o.is_action \/ nxt = None THEN o
    ELSE IF o.action = NEXT THEN [o EXCEPT !.next_page = nxt]
    ELSE [o EXCEPT !.next_page = Mapping(pgs, o.action)]

\* The "Other" option of a Radio as an option record, when it is an
\* ActionOption.
HasOtherAction(el) ==
    "other_action" \in DOMAIN el /\ el.kind = "RADIO" /\ el.other_option
        /\ el.other_action # None
OtherOption(el) ==
    [value |-> <<>>, is_action |-> TRUE, action |-> el.other_action,
     next_page |-> el.other_next_page]

\* ActionChoiceInput._resolve_actions and Radio._resolve_actions: the
\* "Other" option first, then the options.
ElementResolvable(pgs, el, nxt) ==
    /\ HasOtherAction(el) => OptionResolvable(pgs, OtherOption(el), nxt)
    /\ \A i \in 1..Len(el.options) : OptionResolvable(pgs, el.options[i], nxt)
ResolveOptions(pgs, el, nxt) ==
    [el EXCEPT !.options = [i \in 1..Len(el.options) |->
                               resolve_action(pgs, el.options[i], nxt)]]
ResolveElement(pgs, el, nxt) ==
    IF HasOtherAction(el)
    THEN [ResolveOptions(pgs, el, nxt) EXCEPT
             !.other_next_page = resolve_action(pgs, OtherOption(el), nxt).next_page]
    ELSE ResolveOptions(pgs, el, nxt)

\* Page._resolve_actions for the page at sequence position k.
PageResolvable(pgs, k) ==
    LET nxt == IF k < Len(pgs) THEN pgs[k + 1].index ELSE None
    IN /\ \A e \in 1..Len(pgs[k].elements) : ElementResolvable(pgs, pgs[k].elements[e], nxt)
       /\ \/ nxt = None
          \/ pgs[k + 1].prev_action \in {SUBMIT, NEXT}
          \/ MappingHas(pgs, pgs[k + 1].prev_action)
\* Page._resolve_actions that reads the page's own previous-action where
\* the code reads the successor's.
Page_resolve_actions_own_prev_action(pgs, k) ==
    LET pg == pgs[k]
        nxt == IF k < Len(pgs) THEN pgs[k + 1].index ELSE None
    IN IF nxt = None \/ pg.prev_action = SUBMIT THEN pg
       ELSE IF pg.prev_action = NEXT THEN [pg EXCEPT !.next_page = nxt]
       ELSE [pg EXCEPT !.next_page = Mapping(pgs, pg.prev_action),
                       !.has_default_next_page = FALSE]

\* Page._resolve_actions that looks SUBMIT up in the mapping like a page id.
Page_resolve_actions_submit_page(pgs, k) ==
    LET pg == pgs[k]
        nxt == IF k < Len(pgs) THEN pgs[k + 1].index ELSE None
    IN IF nxt = None THEN pg
       ELSE IF pgs[k + 1].prev_action = NEXT THEN [pg EXCEPT !.next_page = nxt]
       ELSE [pg EXCEPT !.next_page = Mapping(pgs, pgs[k + 1].prev_action),
                       !.has_default_next_page = FALSE]

Page_resolve_actions(pgs, k) ==
    LET pg == pgs[k]
        nxt == IF k < Len(pgs) THEN pgs[k + 1].index ELSE None
        els == [e \in 1..Len(pg.elements) |-> ResolveElement(pgs, pg.elements[e], nxt)]
        p1 == [pg EXCEPT !.elements = els]
    IN IF nxt = None THEN p1
       ELSE IF pgs[k + 1].prev_action = SUBMIT
            THEN [p1 EXCEPT !.has_default_next_page = FALSE]
       ELSE IF pgs[k + 1].prev_action = NEXT
            THEN [p1 EXCEPT !.next_page = nxt]
       ELSE [p1 EXCEPT !.next_page = Mapping(pgs, pgs[k + 1].prev_action),
                       !.has_default_next_page = FALSE]

\* Form._resolve_actions: every page in order; the first KeyError stops it
\* and leaves the later pages unresolved.
RECURSIVE ResolveFrom(_, _)
ResolveFrom(pgs, k) ==
    IF k > Len(pgs) THEN [pages |-> pgs, ok |-> TRUE]
    ELSE IF ~PageResolvable(pgs, k) THEN [pages |-> pgs, ok |-> FALSE]
    ELSE ResolveFrom([pgs EXCEPT ![k] = Page_resolve_actions(pgs, k)], k + 1)

Form_resolve_actions(pgs) == ResolveFrom(pgs, 1)

-----------------------------------------------------------------------------
(* The form's mutable state as one record F = [pages, sel, unval, found],   *)
(* so that a whole handler can be computed by operators.                    *)

Res(F, e) == [F |-> F, err |-> e]

PageAt(F, p) == F.pages[p + 1]
ElemAt(F, p, e) == F.pages[p + 1].elements[e]
ActionKinds == {"DROPDOWN", "RADIO"}

\* Page.is_validated: no element of the page awaits validation.  Page.SUBMIT
\* has no elements.
Page_is_validated(F, p) ==
    p = SUBMIT \/ \A e \in 1..Len(PageAt(F, p).elements) : ElemAt(F, p, e).is_validated

\* Form._update_validation_state that never adds a page to the unvalidated
\* set.
update_validation_state_discard_only(F, p) ==
    IF p \notin F.sel THEN F ELSE [F EXCEPT !.unval = @ \ {p}]

\* Form._update_validation_state that does not ask whether the page is
\* selected.
update_validation_state_any_page(F, p) ==
    IF Page_is_validated(F, p) THEN [F EXCEPT !.unval = @ \ {p}]
    ELSE [F EXCEPT !.unval = @ \cup {p}]

\* Form._update_validation_state, the hook a page calls when the validation
\* state of one of its elements changes.
update_validation_state(F, p) ==
    IF p \notin F.sel THEN F
    ELSE IF Page_is_validated(F, p) THEN [F EXCEPT !.unval = @ \ {p}]
    ELSE [F EXCEPT !.unval = @ \cup {p}]

\* Form._invalidate_path that leaves _found_full_path as it is.
invalidate_path_keeps_found(F) == [F EXCEPT !.sel = {}, !.unval = {}]

\* Form._invalidate_path
invalidate_path(F) == [F EXCEPT !.sel = {}, !.unval = {}, !.found = FALSE]

\* Form._select_page
select_page(F, p) ==
    IF p \in F.sel THEN Res(F, "InfiniteLoop")
    ELSE LET F1 == [F EXCEPT !.sel = @ \cup {p}]
         IN Res(IF Page_is_validated(F1, p) THEN F1
                ELSE [F1 EXCEPT !.unval = @ \cup {p}], "ok")

\* Page.next_page: the default, overridden by the last action element that
\* has a next page; no default, no next page.
Page_next_page(F, p) ==
    IF p = SUBMIT THEN None
    ELSE LET pg == PageAt(F, p)
             acts == {e \in 1..Len(pg.elements) :
                         pg.elements[e].kind \in ActionKinds /\ pg.elements[e].next_page # None}
         IN IF pg.next_page = None THEN None
            ELSE IF acts = {} THEN pg.next_page
            ELSE pg.elements[CHOOSE e \in acts : \A j \in acts : j <= e].next_page

-----------------------------------------------------------------------------
(* Validators (validators.py) and the inputs that carry one:               *)
(* ValidatedInput with TextInput, Checkboxes and Grid.  Such an element    *)
(* has the fields validator, other_option, other_value and rows besides    *)
(* those of every element; the value of a grid is a sequence of rows.      *)

NoValidator == [type |-> "None"]

\* A parsed Validator; the arguments that could not be parsed (bad_args)
\* are kept as <<>>.
NewValidator(type, subtype, args, bad_args) ==
    [type |-> type, subtype |-> subtype, args |-> args, bad_args |-> bad_args]

\* Validator.has_unknown_type
has_unknown_type(va) == va.type = "UNKNOWN" \/ va.subtype = "UNKNOWN"

\* float(val) for a text of decimal digits: <<TRUE, number>>; a text with
\* any other character does not parse.
DigitChars == <<"0", "1", "2", "3", "4", "5", "6", "7", "8", "9">>
RECURSIVE ToNumber(_, _, _)
ToNumber(s, i, acc) ==
    IF i > Len(s) THEN <<s # <<>>, acc>>
    ELSE IF \E d \in 1..Len(DigitChars) : DigitChars[d] = s[i]
    THEN ToNumber(s, i + 1, 10 * acc + (CHOOSE d \in 1..Len(DigitChars) : DigitChars[d] = s[i]) - 1)
    ELSE <<FALSE, 0>>

\* InputElement._is_empty and OtherChoiceInput._is_empty
is_empty(el) ==
    /\ IF el.kind = "GRID" THEN \A r \in 1..Len(el.value) : el.value[r] = <<>>
       ELSE el.value = <<>>
    /\ el.other_value = PyNone

\* TextInput / Checkboxes / Grid ._is_misconfigured
Element_is_misconfigured(el) ==
    IF el.kind = "SHORT"
    THEN el.validator.subtype = "RANGE" /\ el.validator.args[1] > el.validator.args[2]
    ELSE IF el.kind = "CHECKBOXES"
    THEN /\ el.validator.subtype \in {"AT_LEAST", "EXACTLY"}
         /\ Len(el.options) + (IF el.other_option THEN 1 ELSE 0) < el.validator.args[1]
    ELSE el.validator.subtype = "EXCLUSIVE_COLUMNS" /\ Len(el.options) < el.rows

\* ValidatedInput.is_misconfigured that does not ask whether the element
\* is required.
is_misconfigured_any(el) ==
    /\ el.validator # NoValidator
    /\ ~has_unknown_type(el.validator) /\ ~el.validator.bad_args
    /\ Element_is_misconfigured(el)

\* ValidatedInput.is_misconfigured
is_misconfigured(el) ==
    /\ el.validator # NoValidator
    /\ ~has_unknown_type(el.validator) /\ ~el.validator.bad_args
    /\ el.required
    /\ Element_is_misconfigured(el)

\* TextValidator._validate_number for RANGE, on the text of the element.
validate_number(va, text) ==
    /\ ToNumber(text, 1, 0)[1]
    /\ va.args[1] <= ToNumber(text, 1, 0)[2]
    /\ ToNumber(text, 1, 0)[2] <= va.args[2]

\* CheckboxValidator._validate: the count of the chosen options, the
\* "Other" option included, against the argument.
CheckboxCount(el) == Len(el.value) + (IF el.other_value # PyNone THEN 1 ELSE 0)
CountOk(subtype, cnt, required_cnt) ==
    IF subtype = "AT_LEAST" THEN cnt >= required_cnt
    ELSE IF subtype = "AT_MOST" THEN cnt <= required_cnt
    ELSE cnt = required_cnt

\* CheckboxValidator._validate that leaves the "Other" option out of the
\* count.
checkbox_validate_without_other(el) ==
    IF CountOk(el.validator.subtype, Len(el.value), el.validator.args[1])
    THEN "ok" ELSE "InvalidChoiceCount"

checkbox_validate(el) ==
    IF CountOk(el.validator.subtype, CheckboxCount(el), el.validator.args[1])
    THEN "ok" ELSE "InvalidChoiceCount"

\* GridValidator._validate for EXCLUSIVE_COLUMNS.  The Counter is a sequence
\* of [col, n] in insertion order; cnt.update(row) counts the row's choices.
RECURSIVE CounterUpdate(_, _, _)
CounterUpdate(cnt, row, i) ==
    IF i > Len(row) THEN cnt
    ELSE IF \E k \in 1..Len(cnt) : cnt[k].col = row[i]
    THEN CounterUpdate([k \in 1..Len(cnt) |->
                           IF cnt[k].col = row[i] THEN [cnt[k] EXCEPT !.n = @ + 1] ELSE cnt[k]],
                       row, i + 1)
    ELSE CounterUpdate(Append(cnt, [col |-> row[i], n |-> 1]), row, i + 1)

\* max(cnt.items(), key=count): the first item, in insertion order, of the
\* greatest count.
CounterMax(cnt) ==
    cnt[CHOOSE k \in 1..Len(cnt) :
            /\ \A j \in 1..Len(cnt) : cnt[j].n <= cnt[k].n
            /\ \A j \in 1..(k - 1) : cnt[j].n < cnt[k].n]

\* The loop over the rows: the column SameColumn is raised with, or None
\* when the loop ends without raising; threshold is the count that raises.
RECURSIVE SameColumnFrom(_, _, _, _)
SameColumnAfter(values, r, cnt, threshold) ==
    IF CounterMax(cnt).n > threshold THEN Str(CounterMax(cnt).col)
    ELSE SameColumnFrom(values, r + 1, cnt, threshold)

SameColumnFrom(values, r, cnt, threshold) ==
    IF r > Len(values) THEN PyNone
    ELSE IF values[r] = <<>> THEN SameColumnFrom(values, r + 1, cnt, threshold)
    ELSE SameColumnAfter(values, r, CounterUpdate(cnt, values[r], 1), threshold)

\* The column GridValidator._validate reports.
same_column(el) == SameColumnFrom(el.value, 1, <<>>, 1)

\* GridValidator._validate that raises only for a column chosen more than
\* twice.
grid_validate_more_than_twice(el) ==
    IF SameColumnFrom(el.value, 1, <<>>, 2) # PyNone THEN "SameColumn" ELSE "ok"

grid_validate(el) ==
    IF same_column(el) # PyNone THEN "SameColumn" ELSE "ok"

\* Validator.validate that lets a validator of a known type and an unknown
\* subtype through to _validate, which raises NotImplementedError for it.
Validator_validate_known_type(el) ==
    IF el.validator.type = "UNKNOWN" \/ el.validator.bad_args THEN "ok"
    ELSE IF el.validator.subtype = "UNKNOWN" THEN "NotImplementedError"
    ELSE IF el.kind = "SHORT"
    THEN (IF el.value = <<>> \/ validate_number(el.validator, el.value[1])
          THEN "ok" ELSE "InvalidText")
    ELSE IF el.kind = "CHECKBOXES" THEN checkbox_validate(el)
    ELSE grid_validate(el)

\* Validator.validate: nothing for an unknown type or bad arguments, else
\* the _validate of the validator's class.
Validator_validate(el) ==
    IF has_unknown_type(el.validator) \/ el.validator.bad_args THEN "ok"
    ELSE IF el.kind = "SHORT"
    THEN (IF el.value = <<>> \/ validate_number(el.validator, el.value[1])
          THEN "ok" ELSE "InvalidText")
    ELSE IF el.kind = "CHECKBOXES" THEN checkbox_validate(el)
    ELSE grid_validate(el)

\* _validate_entry over the entries: InputElement (RequiredElement),
\* Short (no newline), OtherChoiceInput (EmptyOther), Grid (RequiredRow).
ValidateEntries(el) ==
    IF el.kind = "GRID"
    THEN (IF el.required /\ \E r \in 1..Len(el.value) : el.value[r] = <<>>
          THEN "RequiredRow" ELSE "ok")
    ELSE IF el.kind \in {"CHECKBOXES", "RADIO"}
    THEN (IF el.required /\ el.value = <<>> /\ el.other_value = PyNone THEN "RequiredElement"
          ELSE IF el.required /\ el.value = <<>> /\ el.other_value = Str(<<>>) THEN "EmptyOther"
          ELSE "ok")
    ELSE IF el.required /\ el.value = <<>> THEN "RequiredElement"
    ELSE IF el.kind = "SHORT" /\ el.value # <<>>
            /\ \E i \in 1..Len(el.value[1]) : el.value[1][i] = "\n"
    THEN "InvalidText"
    ELSE "ok"

\* ValidatedInput._validate
ValidatedInput_validate(el) ==
    IF is_misconfigured(el) THEN "MisconfiguredElement"
    ELSE IF ValidateEntries(el) # "ok" THEN ValidateEntries(el)
    ELSE IF el.validator # NoValidator /\ ~is_empty(el) THEN Validator_validate(el)
    ELSE "ok"

-----------------------------------------------------------------------------
(* Elements: set_value and validate. *)

\* InputElement._set_values: store the value, mark the element as awaiting
\* validation and tell the page.
set_values(F, p, e, v) ==
    update_validation_state(
        [F EXCEPT !.pages[p + 1].elements[e].value = v,
                  !.pages[p + 1].elements[e].is_validated = FALSE], p)

\* TextInput.set_value
TextInput_set_value(F, p, e, v) ==
    IF v.t \in {"str", "EMPTY"}
    THEN Res(set_values(F, p, e, IF v.t = "str" /\ v.s # <<>> THEN <<v.s>> ELSE <<>>), "ok")
    ELSE Res(F, "ElementTypeError")

\* ChoiceInput._find_option that takes the empty string for the first option.
find_option_empty_is_first(el, v) ==
    IF v.t = "opt" THEN v.i
    ELSE IF v.s = <<>> /\ Len(el.options) > 0 THEN 1
    ELSE LET hit == {i \in 1..Len(el.options) : el.options[i].value = v.s}
         IN IF hit = {} THEN 0 ELSE CHOOSE i \in hit : \A j \in hit : i <= j

\* ChoiceInput._find_option for a string or an Option of the element:
\* the position of the option, 0 when no option has that value.
find_option(el, v) ==
    IF v.t = "opt" THEN v.i
    ELSE LET hit == {i \in 1..Len(el.options) : el.options[i].value = v.s}
         IN IF hit = {} THEN 0 ELSE CHOOSE i \in hit : \A j \in hit : i <= j

\* ActionChoiceInput._set_choices that never invalidates the path.
set_choices_keeps_path(F, el) == Res(F, "ok")

\* The end of ActionChoiceInput._set_choices, with the choice stored in F:
\* the path is invalidated when the element's options carry live actions.
set_choices_invalidate(F, el) ==
    IF Len(el.options) = 0 THEN Res(F, "IndexError")
    ELSE IF el.options[1].is_action /\ el.options[1].next_page # None
    THEN Res(invalidate_path(F), "ok")
    ELSE Res(F, "ok")

\* ActionChoiceInput._set_choices that also forgets the targets of the
\* element's options.
set_choices_forgets_targets(F, p, e, el, i) ==
    set_choices_invalidate(
        set_values([F EXCEPT !.pages[p + 1].elements[e].next_page =
                                 IF i # 0 /\ el.options[i].is_action
                                 THEN el.options[i].next_page ELSE None,
                             !.pages[p + 1].elements[e].options =
                                 [o \in DOMAIN el.options |->
                                     [el.options[o] EXCEPT !.next_page = None]]],
                   p, e, IF i = 0 THEN <<>> ELSE <<el.options[i].value>>),
        el)

\* ActionChoiceInput._set_choices for the element's i-th option (i = 0: the
\* empty value): _add_choice takes the option's next page, _set_values
\* stores the value.  next_page was reset before.
set_choices(F, p, e, el, i) ==
    set_choices_invalidate(
        set_values([F EXCEPT !.pages[p + 1].elements[e].next_page =
                                 IF i # 0 /\ el.options[i].is_action
                                 THEN el.options[i].next_page ELSE None],
                   p, e, IF i = 0 THEN <<>> ELSE <<el.options[i].value>>),
        el)

\* ActionChoiceInput.set_value with _to_choice_list and _set_choices:
\* next_page is reset first, then the choice is looked up (InvalidChoice
\* leaves next_page reset), stored, and the path is invalidated.
ActionChoiceInput_set_value(F, p, e, v) ==
    IF v.t \notin {"EMPTY", "str", "opt"} THEN Res(F, "ElementTypeError")
    ELSE IF v.t # "EMPTY" /\ find_option(ElemAt(F, p, e), v) = 0
    THEN Res([F EXCEPT !.pages[p + 1].elements[e].next_page = None], "InvalidChoice")
    ELSE set_choices(F, p, e, ElemAt(F, p, e),
                     IF v.t = "EMPTY" THEN 0 ELSE find_option(ElemAt(F, p, e), v))

\* The loop of ChoiceInput._set_choices over the choices of one entry,
\* with OtherChoiceInput._find_option and _add_choice: vals are the values
\* chosen so far, other the "Other" value.
RECURSIVE AddChoices(_, _, _, _, _)
AddChoices(el, items, i, vals, other) ==
    IF i > Len(items) THEN [err |-> "ok", value |-> vals, other |-> other]
    ELSE IF find_option(el, Str(items[i])) # 0
    THEN AddChoices(el, items, i + 1,
                    Append(vals, el.options[find_option(el, Str(items[i]))].value), other)
    ELSE IF ~el.other_option THEN [err |-> "InvalidChoice", value |-> vals, other |-> other]
    ELSE IF other # PyNone THEN [err |-> "DuplicateOther", value |-> vals, other |-> other]
    ELSE AddChoices(el, items, i + 1, vals, Str(items[i]))

\* Checkboxes.set_value, with r the result of the loop: _other_value is
\* written while the loop runs, the values only when it succeeds.
StoreChoices(F, p, e, r) ==
    IF r.err # "ok"
    THEN Res([F EXCEPT !.pages[p + 1].elements[e].other_value = r.other], r.err)
    ELSE Res(set_values([F EXCEPT !.pages[p + 1].elements[e].other_value = r.other],
                        p, e, r.value), "ok")

Checkboxes_set_value(F, p, e, v) ==
    IF v.t \notin {"EMPTY", "str", "list"} THEN Res(F, "ElementTypeError")
    ELSE StoreChoices(F, p, e,
             AddChoices(ElemAt(F, p, e),
                        IF v.t = "EMPTY" THEN <<>> ELSE IF v.t = "str" THEN <<v.s>> ELSE v.items,
                        1, <<>>, PyNone))

\* Grid._set_grid_values: one choice list per row, looked up row by row.
RECURSIVE GridRows(_, _, _, _)
GridRows(el, rows, i, acc) ==
    IF i > Len(rows) THEN [err |-> "ok", value |-> acc]
    ELSE IF AddChoices(el, rows[i], 1, <<>>, PyNone).err # "ok"
    THEN [err |-> "InvalidRowChoice", value |-> acc]
    ELSE GridRows(el, rows, i + 1, Append(acc, AddChoices(el, rows[i], 1, <<>>, PyNone).value))

StoreRows(F, p, e, r) ==
    IF r.err # "ok" THEN Res(F, r.err) ELSE Res(set_values(F, p, e, r.value), "ok")

Grid_set_value(F, p, e, v) ==
    IF v.t = "EMPTY"
    THEN Res(set_values(F, p, e, [r \in 1..ElemAt(F, p, e).rows |-> <<>>]), "ok")
    ELSE IF v.t # "grid" THEN Res(F, "ElementTypeError")
    ELSE IF Len(v.rows) # ElemAt(F, p, e).rows THEN Res(F, "ElementValueError")
    ELSE StoreRows(F, p, e, GridRows(ElemAt(F, p, e), v.rows, 1, <<>>))

\* ActionChoiceInput._add_choice that takes no next page from the "Other"
\* option.
StoreRadio_other_without_target(F, p, e, r, k) ==
    IF r.err # "ok"
    THEN Res([r.F EXCEPT !.pages[p + 1].elements[e].next_page = None], r.err)
    ELSE set_choices_invalidate(
             [r.F EXCEPT !.pages[p + 1].elements[e].next_page =
                             IF k # 0 /\ ElemAt(F, p, e).options[k].is_action
                             THEN ElemAt(F, p, e).options[k].next_page ELSE None],
             ElemAt(F, p, e))

\* ActionChoiceInput._set_choices of a Radio, after the loop stored r: the
\* next page of the chosen option, then the path is invalidated.
StoreRadio(F, p, e, r, k) ==
    IF r.err # "ok"
    THEN Res([r.F EXCEPT !.pages[p + 1].elements[e].next_page = None], r.err)
    ELSE set_choices_invalidate(
             [r.F EXCEPT !.pages[p + 1].elements[e].next_page =
                             IF k # 0 /\ ElemAt(F, p, e).options[k].is_action
                             THEN ElemAt(F, p, e).options[k].next_page
                             ELSE IF ElemAt(r.F, p, e).other_value # PyNone
                                     /\ HasOtherAction(ElemAt(F, p, e))
                             THEN ElemAt(F, p, e).other_next_page
                             ELSE None],
             ElemAt(F, p, e))

\* Radio: ActionChoiceInput.set_value over OtherChoiceInput._set_choices.
Radio_set_value(F, p, e, v) ==
    IF v.t \notin {"EMPTY", "str"} THEN Res(F, "ElementTypeError")
    ELSE StoreRadio(F, p, e,
             StoreChoices(F, p, e,
                 AddChoices(ElemAt(F, p, e), IF v.t = "EMPTY" THEN <<>> ELSE <<v.s>>,
                            1, <<>>, PyNone)),
             IF v.t = "EMPTY" THEN 0 ELSE find_option(ElemAt(F, p, e), v))

\* Scale.set_value: an int is taken as its decimal text (one digit here).
Scale_set_value(F, p, e, v) ==
    IF v.t \notin {"EMPTY", "str", "int"} THEN Res(F, "ElementTypeError")
    ELSE StoreChoices(F, p, e,
             AddChoices(ElemAt(F, p, e),
                        IF v.t = "EMPTY" THEN <<>>
                        ELSE IF v.t = "int" THEN <<<<DigitChars[v.n + 1]>>>> ELSE <<v.s>>,
                        1, <<>>, PyNone))

\* Time.set_value (TimeInput._set_time) and Date.set_value: neither goes
\* through _set_values.
Time_set_value(F, p, e, v) ==
    IF v.t = "EMPTY"
    THEN Res([F EXCEPT !.pages[p + 1].elements[e].hour = None,
                       !.pages[p + 1].elements[e].minute = None,
                       !.pages[p + 1].elements[e].second = None], "ok")
    ELSE IF v.t = "time"
    THEN Res([F EXCEPT !.pages[p + 1].elements[e].hour = v.hour,
                       !.pages[p + 1].elements[e].minute = v.minute,
                       !.pages[p + 1].elements[e].second = None], "ok")
    ELSE Res(F, "ElementTypeError")

Date_set_value(F, p, e, v) ==
    IF v.t = "EMPTY" THEN Res([F EXCEPT !.pages[p + 1].elements[e].date = <<>>], "ok")
    ELSE IF v.t = "date"
    THEN Res([F EXCEPT !.pages[p + 1].elements[e].date = <<v.year, v.month, v.day>>], "ok")
    ELSE Res(F, "ElementTypeError")

Element_set_value(F, p, e, v) ==
    IF ElemAt(F, p, e).kind \in {"SHORT", "EMAIL"} THEN TextInput_set_value(F, p, e, v)
    ELSE IF ElemAt(F, p, e).kind = "RADIO" THEN Radio_set_value(F, p, e, v)
    ELSE IF ElemAt(F, p, e).kind = "SCALE" THEN Scale_set_value(F, p, e, v)
    ELSE IF ElemAt(F, p, e).kind = "TIME" THEN Time_set_value(F, p, e, v)
    ELSE IF ElemAt(F, p, e).kind = "DATE" THEN Date_set_value(F, p, e, v)
    ELSE IF ElemAt(F, p, e).kind = "CHECKBOXES" THEN Checkboxes_set_value(F, p, e, v)
    ELSE IF ElemAt(F, p, e).kind = "GRID" THEN Grid_set_value(F, p, e, v)
    ELSE ActionChoiceInput_set_value(F, p, e, v)

\* What validate raises: ValidatedInput._validate for an input with a
\* validator slot, else InputElement._validate_entry and Short._validate_entry.
HasNewline(s) == \E i \in 1..Len(s) : s[i] = "\n"
validate_entry(el) ==
    IF "validator" \in DOMAIN el THEN ValidatedInput_validate(el)
    ELSE IF el.required /\ el.value = <<>> THEN "RequiredElement"
    ELSE IF el.kind = "SHORT" /\ el.value # <<>> /\ HasNewline(el.value[1])
    THEN "InvalidText"
    ELSE "ok"

\* InputElement.validate: on success the element no longer awaits validation
\* and the page is told.
Element_validate(F, p, e) ==
    LET r == validate_entry(ElemAt(F, p, e))
    IN IF r # "ok" THEN Res(F, r)
       ELSE Res(update_validation_state(
                    [F EXCEPT !.pages[p + 1].elements[e].is_validated = TRUE], p), "ok")

-----------------------------------------------------------------------------
(* Form.fill and Form.validate: Form._iterate_elements. *)

\* A fill callback: the value it returns for an element, by the element's
\* kind.  cb.given = FALSE is fill(callback=None).
CallbackValue(cb, p, el) ==
    IF el.kind = "DROPDOWN" THEN cb.drop ELSE cb.short

\* The random draws of one call of default_callback on a Checkboxes element
\* or a grid.  order is the shuffle of the options by random.sample, keep
\* the positions for which random.random() < prob, rowperm the shuffle of
\* the rows, rowdraw the rows drawn by random.choices, and cells the draws
\* that are made row by row: a shuffle and the kept positions of
\* random_subset, and pick, the draw of random.choice.

\* random.sample(population, k): the first k of the shuffled population;
\* ValueError when the sample is larger than the population.
random_sample(order, k) ==
    IF k > Len(order) THEN [err |-> "ValueError", s |-> <<>>]
    ELSE [err |-> "ok", s |-> SubSeq(order, 1, k)]

\* subset(tmp[min_size:], prob) of random_subset: the sampled elements at
\* the positions from i on that are kept.
RECURSIVE KeptFrom(_, _, _, _)
KeptFrom(order, keep, i, max_size) ==
    IF i > max_size THEN <<>>
    ELSE (IF i \in keep THEN <<order[i]>> ELSE <<>>) \o KeptFrom(order, keep, i + 1, max_size)

\* random_subset(a, min_size, max_size) with the sizes clipped to
\* 0..len(a): the first min_size of the sample, then the kept ones.
ClippedSubset(order, keep, min_size, max_size) ==
    IF min_size > max_size THEN [err |-> "ValueError", s |-> <<>>]
    ELSE [err |-> "ok",
          s |-> SubSeq(order, 1, min_size) \o KeptFrom(order, keep, min_size + 1, max_size)]

random_subset(order, keep, min_size, max_size) ==
    ClippedSubset(order, keep,
                  IF min_size > 0 THEN min_size ELSE 0,
                  IF max_size < Len(order) THEN max_size ELSE Len(order))

\* The values of the drawn options, in the order drawn.  An Option passes
\* _find_option as it is and _add_choice stores its value.
OptionValues(el, s) == [k \in 1..Len(s) |-> el.options[s[k]].value]

\* The list a draw returns to the caller of default_callback.
ListResult(el, r) ==
    IF r.err # "ok" THEN [err |-> r.err, v |-> Value_EMPTY]
    ELSE [err |-> "ok", v |-> Choices(OptionValues(el, r.s))]

\* _cb_validated_choices that takes AT_LEAST for "at least one when
\* required".
cb_validated_choices_at_least_one(el, d) ==
    IF el.validator.subtype = "AT_MOST"
    THEN ListResult(el, random_subset(d.order, d.keep, IF el.required THEN 1 ELSE 0,
                                      el.validator.args[1]))
    ELSE IF Len(el.options) + (IF el.other_option THEN 1 ELSE 0) < el.validator.args[1]
    THEN [err |-> "ok", v |-> Value_EMPTY]
    ELSE IF Len(el.options) < el.validator.args[1]
    THEN (IF ~el.required THEN [err |-> "ok", v |-> Value_EMPTY]
          ELSE [err |-> "NotImplementedError", v |-> Value_EMPTY])
    ELSE IF el.validator.subtype = "AT_LEAST"
    THEN ListResult(el, random_subset(d.order, d.keep, IF el.required THEN 1 ELSE 0,
                                      Len(el.options)))
    ELSE ListResult(el, random_sample(d.order, el.validator.args[1]))

\* _cb_validated_choices
cb_validated_choices(el, d) ==
    IF el.validator.subtype = "AT_MOST"
    THEN ListResult(el, random_subset(d.order, d.keep, IF el.required THEN 1 ELSE 0,
                                      el.validator.args[1]))
    ELSE IF Len(el.options) + (IF el.other_option THEN 1 ELSE 0) < el.validator.args[1]
    THEN [err |-> "ok", v |-> Value_EMPTY]
    ELSE IF Len(el.options) < el.validator.args[1]
    THEN (IF ~el.required THEN [err |-> "ok", v |-> Value_EMPTY]
          ELSE [err |-> "NotImplementedError", v |-> Value_EMPTY])
    ELSE IF el.validator.subtype = "AT_LEAST"
    THEN ListResult(el, random_subset(d.order, d.keep, el.validator.args[1],
                                      Len(el.options)))
    ELSE ListResult(el, random_sample(d.order, el.validator.args[1]))

\* The rows a draw returns to the caller of default_callback.
GridResult(r, rows) ==
    IF r.err # "ok" THEN [err |-> r.err, v |-> Value_EMPTY]
    ELSE [err |-> "ok", v |-> GridChoices(rows)]

\* RadioGrid, optional: the options opts put into the rows idx, the other
\* rows empty.
SpreadRows(el, opts, idx) ==
    [i \in 1..el.rows |->
        IF \E j \in 1..Len(opts) : idx[j] = i
        THEN <<el.options[opts[CHOOSE j \in 1..Len(opts) : idx[j] = i]].value>>
        ELSE <<>>]

\* CheckboxGrid: the options of opts from position j on that were drawn
\* for row i, in the order of opts; the k-th of them has the row rowdraw[k].
RECURSIVE AddedTo(_, _, _, _, _, _)
AddedTo(el, opts, rowdraw, first, j, i) ==
    IF j > Len(opts) THEN <<>>
    ELSE (IF rowdraw[j - first] = i THEN <<el.options[opts[j]].value>> ELSE <<>>)
         \o AddedTo(el, opts, rowdraw, first, j + 1, i)

\* CheckboxGrid: the first options one to a row when required, the
\* remaining ones in the rows drawn.
FilledRows(el, opts, rowdraw, first) ==
    [i \in 1..el.rows |->
        (IF first > 0 THEN <<el.options[opts[i]].value>> ELSE <<>>)
        \o AddedTo(el, opts, rowdraw, first, first + 1, i)]

\* _grid_validated_choices
grid_validated_choices(el, d) ==
    IF ~el.multichoice
    THEN (IF el.required
          THEN GridResult(random_sample(d.order, el.rows),
                          [i \in 1..el.rows |->
                              <<el.options[random_sample(d.order, el.rows).s[i]].value>>])
          ELSE GridResult(random_subset(d.order, d.keep, 0, el.rows),
                          SpreadRows(el, random_subset(d.order, d.keep, 0, el.rows).s,
                                     d.rowperm)))
    ELSE GridResult(random_subset(d.order, d.keep, IF el.required THEN el.rows ELSE 0,
                                  Len(el.options)),
                    FilledRows(el,
                               random_subset(d.order, d.keep,
                                             IF el.required THEN el.rows ELSE 0,
                                             Len(el.options)).s,
                               d.rowdraw, IF el.required THEN el.rows ELSE 0))

\* _validated_choices
validated_choices(el, d) ==
    IF el.kind = "GRID" THEN grid_validated_choices(el, d)
    ELSE cb_validated_choices(el, d)

\* One row of a grid without a validator: random_subset for a
\* CheckboxGrid, random.choice among the options (and the empty value, when
\* optional) for a RadioGrid.
CellResult(el, c) ==
    IF el.multichoice
    THEN random_subset(c.order, c.keep, IF el.required THEN 1 ELSE 0, Len(el.options))
    ELSE IF Len(el.options) + (IF el.required THEN 0 ELSE 1) = 0
    THEN [err |-> "IndexError", s |-> <<>>]
    ELSE [err |-> "ok", s |-> IF c.pick > Len(el.options) THEN <<>> ELSE <<c.pick>>]

\* default_callback for a Checkboxes element or a grid: with a validator,
\* the checks and _validated_choices; without one, a random subset of the
\* options ("Other" is never chosen), for a grid row by row.
default_choices(el, d) ==
    IF el.validator # NoValidator
    THEN (IF is_misconfigured(el) THEN [err |-> "MisconfiguredElement", v |-> Value_EMPTY]
          ELSE IF has_unknown_type(el.validator)
          THEN [err |-> "UnknownValidator", v |-> Value_EMPTY]
          ELSE IF el.validator.bad_args THEN [err |-> "InvalidArguments", v |-> Value_EMPTY]
          ELSE validated_choices(el, d))
    ELSE IF el.kind = "CHECKBOXES"
    THEN ListResult(el, random_subset(d.order, d.keep, IF el.required THEN 1 ELSE 0,
                                      Len(el.options)))
    ELSE IF \E r \in 1..el.rows : CellResult(el, d.cells[r]).err # "ok"
    THEN [err |-> CellResult(el, d.cells[CHOOSE r \in 1..el.rows :
                                             CellResult(el, d.cells[r]).err # "ok"]).err,
          v |-> Value_EMPTY]
    ELSE [err |-> "ok",
          v |-> GridChoices([r \in 1..el.rows |->
                                OptionValues(el, CellResult(el, d.cells[r]).s)])]

\* default_callback: a single-choice element picks one of its options, or
\* the empty value when it is optional; a text input is not supported.
\* pick is the draw of random.choice.
default_callback(el, pick) ==
    IF el.kind \in {"CHECKBOXES", "GRID"} THEN default_choices(el, pick)
    ELSE IF el.kind # "DROPDOWN" THEN [err |-> "NotImplementedError", v |-> Value_EMPTY]
    ELSE LET n == Len(el.options) + (IF el.required THEN 0 ELSE 1)
             i == IF n = 0 THEN 0 ELSE ((pick - 1) % n) + 1
         IN IF n = 0 THEN [err |-> "IndexError", v |-> Value_EMPTY]
            ELSE IF i > Len(el.options) THEN [err |-> "ok", v |-> Value_EMPTY]
            ELSE [err |-> "ok", v |-> Opt(i)]

\* The do_fill branch that takes a callback's None for Value.UNCHANGED.
FillValue_none_unchanged(el, p, cb, fill_optional) ==
    LET v0 == IF cb.given THEN CallbackValue(cb, p, el) ELSE Value_DEFAULT
    IN IF v0 \in {PyNone, Value_UNCHANGED} THEN [err |-> "ok", skip |-> TRUE, v |-> v0]
       ELSE IF v0 # Value_DEFAULT THEN [err |-> "ok", skip |-> FALSE, v |-> v0]
       ELSE IF el.required \/ fill_optional
       THEN [err |-> default_callback(el, cb.pick).err, skip |-> FALSE,
             v |-> default_callback(el, cb.pick).v]
       ELSE [err |-> "ok", skip |-> FALSE, v |-> Value_EMPTY]

\* The do_fill branch that calls default_callback for required elements
\* only, whatever fill_optional says.
FillValue_required_only(el, p, cb, fill_optional) ==
    LET v0 == IF cb.given THEN CallbackValue(cb, p, el) ELSE Value_DEFAULT
    IN IF v0 = PyNone THEN [err |-> "ValueError", skip |-> TRUE, v |-> v0]
       ELSE IF v0 = Value_UNCHANGED THEN [err |-> "ok", skip |-> TRUE, v |-> v0]
       ELSE IF v0 # Value_DEFAULT THEN [err |-> "ok", skip |-> FALSE, v |-> v0]
       ELSE IF el.required
       THEN [err |-> default_callback(el, cb.pick).err, skip |-> FALSE,
             v |-> default_callback(el, cb.pick).v]
       ELSE [err |-> "ok", skip |-> FALSE, v |-> Value_EMPTY]

\* The value the do_fill branch of the element loop sets: the callback's
\* value, DEFAULT replaced by default_callback or by the empty value; skip
\* stands for UNCHANGED.
FillValue(el, p, cb, fill_optional) ==
    LET v0 == IF cb.given THEN CallbackValue(cb, p, el) ELSE Value_DEFAULT
    IN IF v0 = PyNone THEN [err |-> "ValueError", skip |-> TRUE, v |-> v0]
       ELSE IF v0 = Value_UNCHANGED THEN [err |-> "ok", skip |-> TRUE, v |-> v0]
       ELSE IF v0 # Value_DEFAULT THEN [err |-> "ok", skip |-> FALSE, v |-> v0]
       ELSE IF el.required \/ fill_optional
       THEN [err |-> default_callback(el, cb.pick).err, skip |-> FALSE,
             v |-> default_callback(el, cb.pick).v]
       ELSE [err |-> "ok", skip |-> FALSE, v |-> Value_EMPTY]

SetFillValue(F, p, e, fv) ==
    IF fv.err # "ok" THEN Res(F, fv.err)
    ELSE IF fv.skip THEN Res(F, "ok")
    ELSE Element_set_value(F, p, e, fv.v)

\* The do_fill branch of the element loop.
FillElement(F, p, e, cb, fill_optional) ==
    SetFillValue(F, p, e, FillValue(ElemAt(F, p, e), p, cb, fill_optional))

\* The element loop of one page, from element e on: r1 is the state after
\* the fill of element e, r2 the state after its validation.
RECURSIVE IterateElements(_, _, _, _, _, _)
AfterElement(r2, p, e, cb, fill_optional, do_fill) ==
    IF r2.err # "ok" THEN r2
    ELSE IterateElements(r2.F, p, e + 1, cb, fill_optional, do_fill)

AfterFill(r1, p, e, cb, fill_optional, do_fill) ==
    IF r1.err # "ok" THEN r1
    ELSE AfterElement(IF ElemAt(r1.F, p, e).is_validated THEN r1
                      ELSE Element_validate(r1.F, p, e),
                      p, e, cb, fill_optional, do_fill)

IterateElements(F, p, e, cb, fill_optional, do_fill) ==
    IF p = SUBMIT \/ e > Len(PageAt(F, p).elements) THEN Res(F, "ok")
    ELSE AfterFill(IF do_fill THEN FillElement(F, p, e, cb, fill_optional)
                   ELSE Res(F, "ok"),
                   p, e, cb, fill_optional, do_fill)

\* The page loop: r1 is the state after _select_page, r2 the state after the
\* elements of the page.  seen holds the states in which a page was entered:
\* with a callback that returns the same values again, entering a page in a
\* state seen before means the loop never ends ("Hang").
RECURSIVE IteratePages(_, _, _, _, _, _)
AfterPage(r2, p, cb, fill_optional, do_fill, seen) ==
    IF r2.err # "ok" THEN r2
    ELSE IteratePages(r2.F, Page_next_page(r2.F, p), cb, fill_optional, do_fill, seen)

AfterSelect(r1, p, cb, fill_optional, do_fill, seen) ==
    IF r1.err # "ok" THEN r1
    ELSE AfterPage(IterateElements(r1.F, p, 1, cb, fill_optional, do_fill),
                   p, cb, fill_optional, do_fill, seen)

IteratePages(F, p, cb, fill_optional, do_fill, seen) ==
    IF p = None THEN Res([F EXCEPT !.found = TRUE], "ok")
    ELSE IF <<p, F>> \in seen THEN Res(F, "Hang")
    ELSE AfterSelect(select_page(F, p), p, cb, fill_optional, do_fill,
                     seen \cup {<<p, F>>})

\* Form._iterate_elements that does not invalidate the path first.
iterate_elements_no_reset(F, cb, fill_optional, do_fill) ==
    IteratePages(F, 0, cb, fill_optional, do_fill, {})

\* Form._iterate_elements that gives _found_full_path its former value back
\* when the walk raises.
RestoreFound(r, found) ==
    IF r.err = "ok" THEN r ELSE Res([r.F EXCEPT !.found = found], r.err)
iterate_elements_restores_found(F, cb, fill_optional, do_fill) ==
    RestoreFound(IteratePages(invalidate_path(F), 0, cb, fill_optional, do_fill, {}),
                 F.found)

iterate_elements(F, cb, fill_optional, do_fill) ==
    IteratePages(invalidate_path(F), 0, cb, fill_optional, do_fill, {})

NoCallback == [given |-> FALSE, short |-> Value_DEFAULT, drop |-> Value_DEFAULT,
               pick |-> 1]

-----------------------------------------------------------------------------
(* The state of the model. *)

FormState == [pages |-> pages, sel |-> selected_pages, unval |-> unvalidated_pages,
              found |-> found_full_path]

SetForm(F) ==
    /\ pages' = F.pages
    /\ selected_pages' = F.sel
    /\ unvalidated_pages' = F.unval
    /\ found_full_path' = F.found

\* Form.is_validated
is_validated == unvalidated_pages = {} /\ found_full_path
IsValidatedIn(F) == F.unval = {} /\ F.found

DefaultSettings == [send_receipt |-> "UNUSED", signin_required |-> FALSE]
NoTokens == [fbzx |-> <<>>, history |-> <<>>, draft |-> PyNone]

\* Form.__init__: Form._clear
Init ==
    /\ is_loaded = FALSE
    /\ pages = <<>>
    /\ selected_pages = {}
    /\ unvalidated_pages = {}
    /\ found_full_path = FALSE
    /\ settings = DefaultSettings
    /\ tokens = NoTokens
    /\ prefilled_data = <<>>
    /\ last_op = NoOp
    /\ err = "ok"
    /\ scen = "none"
    /\ requests = <<>>

\* A call is possible unless an earlier call never returned.
Running == err # "Hang"

Op(name, p, e) == [op |-> name, p |-> p, e |-> e]

\* The values of scen: "V" after a successful Form.validate(), "VV" after a
\* second one in a row, "VS" / "VSa" after a successful set_value that
\* follows (on an element without / with live page actions), "VSE" / "VSaE"
\* after a successful validate() of that element, "VSaEV" after a
\* successful Form.validate() that follows "VSaE"; "none" otherwise.
AfterValidate == {"V", "VV", "VSaEV"}

\* ActionChoiceInput._set_choices: the element's options carry actions that
\* are not ignored.
HasLiveActions(el) ==
    /\ el.kind \in ActionKinds
    /\ Len(el.options) > 0
    /\ el.options[1].is_action
    /\ el.options[1].next_page # None

\* The draftResponse of a loaded document, [None, None, fbzx]: d0 is its
\* first item.
LoadedDraft == [t |-> "draft", d0 |-> PyNone]

-----------------------------------------------------------------------------
(* The documents the walk specification loads. *)

\* The options of the form's dropdown: go to the first page, to the next
\* page, to the submit page.
ActionOptions == <<WireOption(ValA, FIRST), WireOption(ValB, NEXT), WireOption(ValC, SUBMIT)>>

\* Page 0 holds a dropdown with actions, page 1 a required short text
\* input, later pages nothing; prevs are the pages' declared
\* previous-actions.
RECURSIVE LaterPages(_, _)
LaterPages(prevs, k) ==
    IF k > Len(prevs) THEN <<>>
    ELSE <<WirePage(k, prevs[k])>>
         \o (IF k = 1 THEN <<WireShort(TRUE)>> ELSE <<>>)
         \o LaterPages(prevs, k + 1)

WalkDocument(prevs) ==
    [elements |-> <<WireDropdown(FALSE, ActionOptions)>> \o LaterPages(prevs, 1),
     send_receipt |-> "UNUSED", signin_required |-> FALSE,
     fbzx |-> <<"f">>, draft |-> LoadedDraft]

WalkDocuments ==
    {WalkDocument(prevs) :
        prevs \in UNION {[1..n -> {NEXT, SUBMIT}] : n \in 0..(MaxPages - 1)}}

TextNL == <<"a", "\n">>
ShortValues == {Value_EMPTY, Str(TextA), Str(TextNL)}
DropdownValues == {Value_EMPTY, Str(ValA), Str(ValB), Str(ValC), Str(ValZ)}
ValuesFor(el) == IF el.kind = "SHORT" THEN ShortValues ELSE DropdownValues

\* The callbacks Form.fill is called with, and fill(callback=None).
Callbacks ==
    [given : {TRUE},
     short : {PyNone, Value_UNCHANGED, Str(TextA)},
     drop : {Value_UNCHANGED, Str(ValA), Str(ValB), Str(ValC)},
     pick : {1}]
    \cup [given : {TRUE}, short : {Str(TextA)}, drop : {Value_DEFAULT}, pick : 1..2]
    \cup {NoCallback}

-----------------------------------------------------------------------------
(* The operations. *)

\* InputElement.prefill: the prefilled values of the element's entries are
\* stored, unless all of them are empty.
Element_prefill(F, p, e, data) ==
    IF <<p, e>> \notin DOMAIN data THEN F
    ELSE IF ElemAt(F, p, e).kind = "GRID" /\ \A r \in 1..Len(data[<<p, e>>]) : data[<<p, e>>][r] = <<>>
    THEN F
    ELSE IF data[<<p, e>>] = <<>> THEN F
    ELSE set_values(F, p, e, data[<<p, e>>])

\* element.prefill(data) for every input element, in document order: in
\* Form._parse as the elements are appended, and in Form.reset.
RECURSIVE PrefillFrom(_, _, _, _)
PrefillFrom(F, data, p, e) ==
    IF p >= Len(F.pages) THEN F
    ELSE IF e > Len(PageAt(F, p).elements) THEN PrefillFrom(F, data, p + 1, 1)
    ELSE PrefillFrom(Element_prefill(F, p, e, data), data, p, e + 1)

\* Form._parse_url: the entries of a pre-filled link, none for a plain link.
PrefilledIn(doc) == IF "prefilled" \in DOMAIN doc THEN doc.prefilled ELSE <<>>

\* Form.load: _clear, then _parse and _resolve_actions on the document.
Load(doc) ==
    /\ Running
    /\ \E st \in {ParseElements(doc.elements, 1, [pages |-> <<PageFirst>>, found |-> TRUE])} :
       \E r \in {Form_resolve_actions(st.pages)} :
          /\ SetForm(PrefillFrom([pages |-> r.pages, sel |-> {0}, unval |-> {},
                                  found |-> st.found], PrefilledIn(doc), 0, 1))
          /\ is_loaded' = r.ok
          /\ err' = IF r.ok THEN "ok" ELSE "KeyError"
    /\ prefilled_data' = PrefilledIn(doc)
    /\ settings' = [send_receipt |-> doc.send_receipt,
                    signin_required |-> doc.signin_required]
    /\ tokens' = [fbzx |-> doc.fbzx, history |-> <<0>>, draft |-> doc.draft]
    /\ last_op' = Op("load", 0, 0)
    /\ scen' = "none"
    /\ requests' = <<>>

LoadWalk == \E doc \in WalkDocuments : Load(doc)

\* element.set_value(v) on element e of page p.
SetValue(p, e, v) ==
    /\ Running
    /\ \E r \in {Element_set_value(FormState, p, e, v)} :
          /\ SetForm(r.F)
          /\ err' = r.err
          /\ scen' = IF r.err = "ok" /\ scen \in AfterValidate
                     THEN (IF HasLiveActions(ElemAt(FormState, p, e)) THEN "VSa" ELSE "VS")
                     ELSE "none"
    /\ last_op' = Op("set_value", p, e)
    /\ requests' = <<>>
    /\ UNCHANGED <<is_loaded, settings, tokens, prefilled_data>>

SetAnyValue ==
    \E p \in 0..(Len(pages) - 1) : \E e \in 1..Len(pages[p + 1].elements) :
        \E v \in ValuesFor(pages[p + 1].elements[e]) : SetValue(p, e, v)

\* element.validate() on element e of page p.
ValidateElement(p, e) ==
    /\ Running
    /\ \E r \in {Element_validate(FormState, p, e)} :
          /\ SetForm(r.F)
          /\ err' = r.err
          /\ scen' = IF scen \in {"VS", "VSa"} /\ last_op = Op("set_value", p, e)
                     THEN (IF r.err # "ok" THEN "none"
                           ELSE IF scen = "VS" THEN "VSE" ELSE "VSaE")
                     ELSE "none"
    /\ last_op' = Op("validate_element", p, e)
    /\ requests' = <<>>
    /\ UNCHANGED <<is_loaded, settings, tokens, prefilled_data>>

ValidateAnyElement ==
    \E p \in 0..(Len(pages) - 1) : \E e \in 1..Len(pages[p + 1].elements) :
        ValidateElement(p, e)

\* What a call on a form that is not loaded does: FormNotLoaded, no change.
NotLoaded(name) ==
    /\ ~is_loaded
    /\ err' = "FormNotLoaded"
    /\ last_op' = Op(name, 0, 0)
    /\ scen' = "none"
    /\ requests' = <<>>
    /\ UNCHANGED <<is_loaded, pages, selected_pages, unvalidated_pages,
                   found_full_path, settings, tokens, prefilled_data>>

\* Form.validate()
Validate ==
    /\ Running
    /\ \/ NotLoaded("validate")
       \/ /\ is_loaded
          /\ \E r \in {iterate_elements(FormState, NoCallback, FALSE, FALSE)} :
                /\ SetForm(r.F)
                /\ err' = r.err
                /\ scen' = IF r.err # "ok" THEN "none"
                           ELSE IF scen = "VSaE" THEN "VSaEV"
                           ELSE IF scen \in AfterValidate THEN "VV"
                           ELSE "V"
          /\ last_op' = Op("validate", 0, 0)
          /\ requests' = <<>>
          /\ UNCHANGED <<is_loaded, settings, tokens, prefilled_data>>

\* Form.fill(callback, fill_optional)
Fill(cb, fill_optional) ==
    /\ Running
    /\ \/ NotLoaded("fill")
       \/ /\ is_loaded
          /\ \E r \in {iterate_elements(FormState, cb, fill_optional, TRUE)} :
                /\ SetForm(r.F)
                /\ err' = r.err
          /\ scen' = "none"
          /\ last_op' = Op("fill", 0, 0)
          /\ requests' = <<>>
          /\ UNCHANGED <<is_loaded, settings, tokens, prefilled_data>>

FillAny == \E cb \in Callbacks : \E fill_optional \in BOOLEAN : Fill(cb, fill_optional)

Next ==
    \/ LoadWalk
    \/ SetAnyValue
    \/ ValidateAnyElement
    \/ Validate
    \/ FillAny

Spec == Init /\ [][Next]_vars

-----------------------------------------------------------------------------
(* Submission: Form.submit with _submit_page, _fetch_page, _emulate_history *)
(* and _check_resp.  A POST and its response are logged as one exchange.    *)

\* A pageHistory is a sequence of page indices; no pageHistory input in a
\* response is the empty sequence.
NoHistory == <<>>
Absent == [t |-> "absent"]

\* InputElement.payload over Page.payload: the entries of the page's
\* elements that have a value.
RECURSIVE PayloadFrom(_, _, _)
PayloadFrom(F, p, e) ==
    IF e > Len(PageAt(F, p).elements) THEN <<>>
    ELSE (IF ElemAt(F, p, e).value # <<>>
          THEN <<[entry |-> <<p, e>>, value |-> ElemAt(F, p, e).value]>>
          ELSE <<>>) \o PayloadFrom(F, p, e + 1)

Page_payload(F, p) == IF p = SUBMIT THEN <<>> ELSE PayloadFrom(F, p, 1)

\* InputElement.draft over Page.draft: the tuples (None, entry, value, 0).
RECURSIVE DraftFrom(_, _, _)
DraftFrom(F, p, e) ==
    IF e > Len(PageAt(F, p).elements) THEN <<>>
    ELSE (IF ElemAt(F, p, e).value # <<>>
          THEN <<[entry |-> <<p, e>>, value |-> ElemAt(F, p, e).value, other |-> 0]>>
          ELSE <<>>) \o DraftFrom(F, p, e + 1)

Page_draft(F, p) == IF p = SUBMIT THEN <<>> ELSE DraftFrom(F, p, 1)

\* The responses the server gives to the n-th POST of a submit: a status, the
\* kind of the final URL, a pageHistory (none, or one that ends with some
\* page index, after a first item that is no page of the form) and a
\* draftResponse of its own.
ServerPrefix == MaxPages + 4
ServerDraft(n) == [t |-> "srv", n |-> n]
ServerTails == (0..(MaxPages - 1)) \cup {SUBMIT}
Response(status, url, history, n) ==
    [status |-> status, url |-> url, history |-> history, draft |-> ServerDraft(n)]

\* The final URL of a response: its host and what its path ends with.
Url(netloc, path_end) == [netloc |-> netloc, path_end |-> path_end]
FormsUrl(path_end) == Url("docs.google.com", path_end)
AccountsUrl(path_end) == Url("accounts.google.com", path_end)

\* The responses that meet more than one condition of Form._check_resp, or
\* one of them and a status other than 200.
MixedResponses(n) ==
    {Response(c[1], c[2], NoHistory, n) :
        c \in {<<404, AccountsUrl("closedform")>>,
               <<410, FormsUrl("formResponse")>>,
               <<401, FormsUrl("closedform")>>,
               <<200, AccountsUrl("closedform")>>,
               <<200, AccountsUrl("signin")>>,
               <<200, FormsUrl("editingdisabled")>>,
               <<500, FormsUrl("closedform")>>,
               <<500, FormsUrl("editingdisabled")>>}}

Responses(n) ==
    {Response(200, FormsUrl("formResponse"), h, n) :
        h \in {NoHistory} \cup {<<ServerPrefix, t>> : t \in ServerTails}}
    \cup {Response(st, FormsUrl("formResponse"), NoHistory, n) : st \in {500, 404, 401}}
    \cup {Response(200, FormsUrl("closedform"), NoHistory, n)}
    \cup MixedResponses(n)

\* Form._is_closed, Form._editing_disabled
is_closed(resp) == resp.url.path_end = "closedform"
editing_disabled(resp) == resp.url.path_end = "editingdisabled"

\* Form._check_resp that looks at the URL before the status.
check_resp_url_first(resp) ==
    IF is_closed(resp) THEN "ClosedForm"
    ELSE IF editing_disabled(resp) THEN "EditingDisabled"
    ELSE IF resp.status = 401 \/ resp.url.netloc = "accounts.google.com"
    THEN "SigninRequired"
    ELSE IF resp.status \in {404, 410} THEN "NoSuchForm"
    ELSE "ok"

\* Form._check_resp
check_resp(resp) ==
    IF resp.status \in {404, 410} THEN "NoSuchForm"
    ELSE IF resp.status = 401 \/ resp.url.netloc = "accounts.google.com"
    THEN "SigninRequired"
    ELSE IF is_closed(resp) THEN "ClosedForm"
    ELSE IF editing_disabled(resp) THEN "EditingDisabled"
    ELSE "ok"

\* Form._submit_page with the payload of the back request taken from the
\* page's elements.
submit_page_request_back_payload(F, fbzx, page, history, draft, continue_, captcha_response, back) ==
    [page |-> page,
     payload |-> Page_payload(F, IF back THEN history[1] ELSE page),
     fbzx |-> fbzx,
     continue |-> continue_ /\ ~back,
     history |-> history,
     draft |-> IF back THEN Absent ELSE draft,
     captcha |-> captcha_response,
     back |-> back]

\* Form._submit_page that sends continue=1 with every page.
submit_page_request_always_continue(F, fbzx, page, history, draft, continue_, captcha_response, back) ==
    [page |-> page,
     payload |-> IF back THEN <<>> ELSE Page_payload(F, page),
     fbzx |-> fbzx,
     continue |-> ~back,
     history |-> history,
     draft |-> IF back THEN Absent ELSE draft,
     captcha |-> captcha_response,
     back |-> back]

\* The request Form._submit_page builds.
submit_page_request(F, fbzx, page, history, draft, continue_, captcha_response, back) ==
    [page |-> page,
     payload |-> IF back THEN <<>> ELSE Page_payload(F, page),
     fbzx |-> fbzx,
     continue |-> continue_ /\ ~back,
     history |-> history,
     draft |-> IF back THEN Absent ELSE draft,
     captcha |-> captcha_response,
     back |-> back]

\* Form._submit_page that raises on what _check_resp rejects only.
submit_page_result_ignores_status(resp) == check_resp(resp)

\* What Form._submit_page raises on a response.
submit_page_result(resp) ==
    LET c == check_resp(resp)
    IN IF c # "ok" THEN c
       ELSE IF resp.status # 200 THEN "RuntimeError"
       ELSE "ok"

\* Form._submit_page as the n-th POST: the exchanges it can end with.
submit_page(req, n) ==
    {[x |-> [req |-> req, resp |-> r], err |-> submit_page_result(r)] : r \in Responses(n)}

\* captcha_handler(last_response): the handler's answer names the response
\* it was shown (0 is the loaded document, n the response to the n-th POST).
Solved(rid) == [t |-> "captcha", of |-> rid]

Outcome(log, e) == [requests |-> log, err |-> e]

\* The loop of Form.submit from page on; log holds the exchanges so far.
RECURSIVE SubmitLoop(_, _, _, _, _, _, _, _)
SubmitLoop(F, fbzx, page, history, draft, last_rid, log, need_receipt) ==
    LET next_page == Page_next_page(F, page)
        captcha_response == IF need_receipt /\ next_page = None THEN Solved(last_rid)
                            ELSE PyNone
        req == submit_page_request(F, fbzx, page, history, draft, next_page # None,
                                   captcha_response, FALSE)
        n == Len(log) + 1
    IN UNION {IF o.err # "ok" THEN {Outcome(Append(log, o.x), o.err)}
              ELSE LET h == o.x.resp.history
                   IN IF next_page = None /\ h = NoHistory
                      THEN {Outcome(Append(log, o.x), "ok")}
                      ELSE IF next_page = None \/ h = NoHistory \/ next_page # h[Len(h)]
                      THEN {Outcome(Append(log, o.x), "RuntimeError")}
                      ELSE SubmitLoop(F, fbzx, next_page, h, o.x.resp.draft, n,
                                      Append(log, o.x), need_receipt)
              : o \in submit_page(req, n)}

\* The walk of Form._emulate_history: the last page of the path, the history
\* and the first item of the draft built on the way.
RECURSIVE EmulateWalk(_, _, _, _)
EmulateWalk(F, last_page, history, d0) ==
    LET next_page == Page_next_page(F, last_page)
    IN IF next_page = None THEN [page |-> last_page, history |-> history, d0 |-> d0]
       ELSE EmulateWalk(F, next_page, Append(history, next_page),
                        IF d0 = PyNone
                        THEN [t |-> "list", entries |-> Page_draft(F, last_page)]
                        ELSE [d0 EXCEPT !.entries = @ \o Page_draft(F, last_page)])

\* Form._fetch_page: the back request for a page.
fetch_page_request(F, fbzx, page) ==
    submit_page_request(F, fbzx, SUBMIT, <<page, SUBMIT>>, PyNone, TRUE, PyNone, TRUE)

\* Form.submit that takes emulate_history for false.
EmulateSubmit_step_by_step(F, tok, need_receipt) ==
    SubmitLoop(F, tok.fbzx, 0, tok.history, tok.draft, 0, <<>>, need_receipt)

\* Form._emulate_history that keeps the first item of the loaded draft.
EmulateSubmit_keeps_loaded_draft(F, tok, need_receipt) ==
    LET w == EmulateWalk(F, 0, tok.history, tok.draft.d0)
        draft == [tok.draft EXCEPT !.d0 = w.d0]
    IN IF need_receipt /\ w.page # 0
       THEN UNION {IF o.err # "ok" THEN {Outcome(<<o.x>>, o.err)}
                   ELSE SubmitLoop(F, tok.fbzx, w.page, w.history, draft, 1, <<o.x>>,
                                   need_receipt)
                   : o \in submit_page(fetch_page_request(F, tok.fbzx, w.page), 1)}
       ELSE SubmitLoop(F, tok.fbzx, w.page, w.history, draft, 0, <<>>, need_receipt)

\* Form.submit after its checks, with emulate_history: _emulate_history,
\* then the loop from the last page.
EmulateSubmit(F, tok, need_receipt) ==
    LET w == EmulateWalk(F, 0, tok.history, PyNone)
        draft == [tok.draft EXCEPT !.d0 = w.d0]
    IN IF need_receipt /\ w.page # 0
       THEN UNION {IF o.err # "ok" THEN {Outcome(<<o.x>>, o.err)}
                   ELSE SubmitLoop(F, tok.fbzx, w.page, w.history, draft, 1, <<o.x>>,
                                   need_receipt)
                   : o \in submit_page(fetch_page_request(F, tok.fbzx, w.page), 1)}
       ELSE SubmitLoop(F, tok.fbzx, w.page, w.history, draft, 0, <<>>, need_receipt)

\* Form.submit that checks sign-in and the captcha handler before the
\* state of the form.
Form_submit_checks_reordered(F, loaded, set, tok, need_receipt, has_handler, emulate_history) ==
    LET need == IF set.send_receipt # "OPT_IN" THEN set.send_receipt = "ALWAYS"
                ELSE need_receipt
    IN IF need /\ ~has_handler THEN {Outcome(<<>>, "ValueError")}
       ELSE IF set.signin_required THEN {Outcome(<<>>, "SigninRequired")}
       ELSE IF ~loaded THEN {Outcome(<<>>, "FormNotLoaded")}
       ELSE IF ~IsValidatedIn(F) THEN {Outcome(<<>>, "FormNotValidated")}
       ELSE IF emulate_history THEN EmulateSubmit(F, tok, need)
       ELSE SubmitLoop(F, tok.fbzx, 0, tok.history, tok.draft, 0, <<>>, need)

\* Form.submit that takes need_receipt as it was given, whatever
\* settings.send_receipt is.
Form_submit_need_receipt_as_given(F, loaded, set, tok, need_receipt, has_handler, emulate_history) ==
    IF ~loaded THEN {Outcome(<<>>, "FormNotLoaded")}
    ELSE IF ~IsValidatedIn(F) THEN {Outcome(<<>>, "FormNotValidated")}
    ELSE IF need_receipt /\ ~has_handler THEN {Outcome(<<>>, "ValueError")}
    ELSE IF set.signin_required THEN {Outcome(<<>>, "SigninRequired")}
    ELSE IF emulate_history THEN EmulateSubmit(F, tok, need_receipt)
    ELSE SubmitLoop(F, tok.fbzx, 0, tok.history, tok.draft, 0, <<>>, need_receipt)

\* Form.submit: the outcomes it can end with.
Form_submit(F, loaded, set, tok, need_receipt, has_handler, emulate_history) ==
    IF ~loaded THEN {Outcome(<<>>, "FormNotLoaded")}
    ELSE IF ~IsValidatedIn(F) THEN {Outcome(<<>>, "FormNotValidated")}
    ELSE LET need == IF set.send_receipt # "OPT_IN" THEN set.send_receipt = "ALWAYS"
                     ELSE need_receipt
         IN IF need /\ ~has_handler THEN {Outcome(<<>>, "ValueError")}
            ELSE IF set.signin_required THEN {Outcome(<<>>, "SigninRequired")}
            ELSE IF emulate_history THEN EmulateSubmit(F, tok, need)
            ELSE SubmitLoop(F, tok.fbzx, 0, tok.history, tok.draft, 0, <<>>, need)

SubmitOp(need_receipt, has_handler, emulate_history) ==
    [op |-> "submit", p |-> 0, e |-> 0, need_receipt |-> need_receipt,
     has_handler |-> has_handler, emulate_history |-> emulate_history]

\* Form.submit that keeps the pageHistory and the draftResponse of the last
\* response as the form's own.
Submit_stores_last_response(need_receipt, has_handler, emulate_history) ==
    /\ Running
    /\ \E o \in Form_submit(FormState, is_loaded, settings, tokens, need_receipt,
                            has_handler, emulate_history) :
           /\ requests' = o.requests
           /\ err' = o.err
           /\ tokens' = IF o.requests = <<>> THEN tokens
                        ELSE [tokens EXCEPT
                                 !.history = o.requests[Len(o.requests)].resp.history,
                                 !.draft = o.requests[Len(o.requests)].resp.draft]
    /\ last_op' = SubmitOp(need_receipt, has_handler, emulate_history)
    /\ scen' = "none"
    /\ UNCHANGED <<is_loaded, pages, selected_pages, unvalidated_pages,
                   found_full_path, settings, prefilled_data>>

\* Form.submit(need_receipt=, captcha_handler=, emulate_history=)
Submit(need_receipt, has_handler, emulate_history) ==
    /\ Running
    /\ \E o \in Form_submit(FormState, is_loaded, settings, tokens, need_receipt,
                            has_handler, emulate_history) :
           /\ requests' = o.requests
           /\ err' = o.err
    /\ last_op' = SubmitOp(need_receipt, has_handler, emulate_history)
    /\ scen' = "none"
    /\ UNCHANGED <<is_loaded, pages, selected_pages, unvalidated_pages,
                   found_full_path, settings, tokens, prefilled_data>>

\* The calls of submit: without and with a captcha handler, asking for a
\* receipt or not, step by step or with an emulated history.
SubmitAny ==
    \E c \in {<<FALSE, FALSE>>, <<TRUE, FALSE>>, <<TRUE, TRUE>>} :
        \E emulate_history \in BOOLEAN : Submit(c[1], c[2], emulate_history)

\* The draftResponse of a document loaded from a pre-filled link: its first
\* item holds an entry for the first element.
PrefilledDraft ==
    [t |-> "draft",
     d0 |-> [t |-> "list",
             entries |-> <<[entry |-> <<0, 1>>, value |-> <<ValC>>, other |-> 0]>>]]

\* The documents the submit specification loads: every page layout with the
\* default settings, and the settings of receipts and sign-in on a layout of
\* two pages and on the layout of one page.
SubmitSettings ==
    {<<"ALWAYS", FALSE>>, <<"OPT_IN", FALSE>>, <<"NEVER", FALSE>>,
     <<"UNUSED", TRUE>>, <<"ALWAYS", TRUE>>}
SubmitDocuments ==
    WalkDocuments
    \cup {[WalkDocument(<<NEXT>>) EXCEPT !.send_receipt = c[1], !.signin_required = c[2]] :
            c \in SubmitSettings}
    \cup {[WalkDocument(<<>>) EXCEPT !.send_receipt = "OPT_IN"]}
    \cup {[WalkDocument(prevs) EXCEPT !.draft = PrefilledDraft] : prevs \in {<<>>, <<NEXT>>}}

LoadSubmit == \E doc \in SubmitDocuments : Load(doc)

\* The values set before a submit.
SubmitValues(el) ==
    IF el.kind = "SHORT" THEN {Str(TextA)}
    ELSE {Value_EMPTY, Str(ValA), Str(ValB), Str(ValC)}

SetSubmitValue ==
    \E p \in 0..(Len(pages) - 1) : \E e \in 1..Len(pages[p + 1].elements) :
        \E v \in SubmitValues(pages[p + 1].elements[e]) : SetValue(p, e, v)

NextSubmit ==
    \/ LoadSubmit
    \/ SetSubmitValue
    \/ Validate
    \/ SubmitAny

SpecSubmit == Init /\ [][NextSubmit]_vars

-----------------------------------------------------------------------------
(* The realized path of a form state: page 0, then next_page() repeatedly. *)

RECURSIVE PathLoopsFrom(_, _, _)
PathLoopsFrom(F, p, visited) ==
    IF p = None THEN FALSE
    ELSE IF p \in visited THEN TRUE
    ELSE PathLoopsFrom(F, Page_next_page(F, p), visited \cup {p})

\* The realized path re-enters a page.
PathLoops(F) == PathLoopsFrom(F, 0, {})

\* The pages of the realized path, in order, up to its end or to the first
\* page it re-enters.
RECURSIVE PathFrom(_, _, _)
PathFrom(F, p, acc) ==
    IF p = None \/ (\E i \in 1..Len(acc) : acc[i] = p) THEN acc
    ELSE PathFrom(F, Page_next_page(F, p), Append(acc, p))

RealizedPath(F) == PathFrom(F, 0, <<>>)
LastPage(F) == RealizedPath(F)[Len(RealizedPath(F))]

-----------------------------------------------------------------------------
(* Properties of the fill / validate walk. *)

LastElement == ElemAt(FormState, last_op.p, last_op.e)

C10_ValidateIdempotent ==
    [][(scen \in AfterValidate /\ last_op'.op = "validate")
          => /\ is_validated
             /\ err' = "ok"
             /\ pages' = pages
             /\ is_validated'
             /\ selected_pages' = selected_pages]_vars

\* C10 happens: two Form.validate() calls in a row have succeeded on a path
\* of two pages or more.
C10_Witness ==
    /\ scen = "VV" /\ is_validated
    /\ Cardinality(selected_pages) >= 2

-----------------------------------------------------------------------------
(* Properties of Form.submit. *)

\* The last call was a submit that sent a request, step by step / with an
\* emulated history.
StepByStep == last_op.op = "submit" /\ ~last_op.emulate_history /\ requests # <<>>
Emulated == last_op.op = "submit" /\ last_op.emulate_history /\ requests # <<>>

\* Whether that submit needed a receipt (and so a solved captcha).
NeededReceipt ==
    IF settings.send_receipt # "OPT_IN" THEN settings.send_receipt = "ALWAYS"
    ELSE last_op.need_receipt

\* C3: a submit on a form that is not loaded raises FormNotLoaded, a submit
\* on a loaded form that is not validated raises FormNotValidated, whatever
\* the settings (sign-in required, receipt) and the arguments (no captcha
\* handler), and no request is sent; these errors are raised in no other
\* case.
C3_SubmitPreconditions ==
    last_op.op = "submit" =>
        /\ ~is_loaded => (err = "FormNotLoaded" /\ requests = <<>>)
        /\ (is_loaded /\ ~is_validated) => (err = "FormNotValidated" /\ requests = <<>>)
        /\ (is_loaded /\ is_validated) => err \notin {"FormNotLoaded", "FormNotValidated"}

\* C3 happens: submit without a captcha handler on a loaded, not validated
\* form that requires sign-in and always sends a receipt.
C3_Witness ==
    /\ last_op.op = "submit" /\ err = "FormNotValidated"
    /\ is_loaded /\ ~is_validated
    /\ settings.signin_required /\ settings.send_receipt = "ALWAYS"
    /\ ~last_op.has_handler

\* C4: in a step-by-step submit the i-th POST is for the i-th page of the
\* realized path and carries that page's payload, the loaded fbzx, the
\* history and draft of the previous response (of the loaded document for
\* the first POST), and continue exactly when the page has a next page; a
\* submit that succeeds has POSTed the whole path.
C4_StepByStepOrder ==
    StepByStep =>
        LET path == RealizedPath(FormState)
        IN /\ Len(requests) <= Len(path)
           /\ err = "ok" => Len(requests) = Len(path)
           /\ \A i \in 1..Len(requests) :
                LET r == requests[i].req
                IN /\ r.page = path[i]
                   /\ r.payload = Page_payload(FormState, path[i])
                   /\ r.fbzx = tokens.fbzx
                   /\ r.history = IF i = 1 THEN tokens.history
                                  ELSE requests[i - 1].resp.history
                   /\ r.draft = IF i = 1 THEN tokens.draft ELSE requests[i - 1].resp.draft
                   /\ r.continue = (i < Len(path))
                   /\ ~r.back

\* C4 happens: a step-by-step submit of a path of three pages succeeded.
C4_Witness ==
    /\ StepByStep /\ err = "ok"
    /\ Len(requests) = 3

\* The pageHistory of a response does not fit the predicted next page.
Mismatch(h, next_page) ==
    IF next_page = None THEN h # NoHistory
    ELSE h = NoHistory \/ h[Len(h)] # next_page

BadResponse(i) ==
    \/ requests[i].resp.status # 200
    \/ Mismatch(requests[i].resp.history, Page_next_page(FormState, requests[i].req.page))

\* C5 (as stated): in a step-by-step submit a response with a status other
\* than 200 or with a pageHistory that does not fit the predicted next page
\* is the last one, and submit raises RuntimeError.
C5_BadResponseRuntimeError ==
    StepByStep =>
        \A i \in 1..Len(requests) :
            BadResponse(i) => (i = Len(requests) /\ err = "RuntimeError")

\* C5 (amended): in a step-by-step submit a response with a status other
\* than 200 or with a pageHistory that does not fit the predicted next page
\* is the last one, and submit raises NoSuchForm for the status 404 or 410,
\* SigninRequired for the status 401 or a sign-in URL, ClosedForm /
\* EditingDisabled for a URL that ends so, and RuntimeError otherwise.
C5_BadResponseAborts ==
    StepByStep =>
        \A i \in 1..Len(requests) :
            BadResponse(i) =>
                /\ i = Len(requests)
                /\ LET resp == requests[i].resp
                   IN err = IF resp.status \in {404, 410} THEN "NoSuchForm"
                            ELSE IF resp.status = 401
                                    \/ resp.url.netloc = "accounts.google.com"
                            THEN "SigninRequired"
                            ELSE IF resp.url.path_end = "closedform" THEN "ClosedForm"
                            ELSE IF resp.url.path_end = "editingdisabled"
                            THEN "EditingDisabled"
                            ELSE "RuntimeError"

\* C5 happens: on a path of three pages the response to the second POST
\* names another next page, and submit raised RuntimeError.
C5_Witness ==
    /\ StepByStep /\ err = "RuntimeError"
    /\ Len(RealizedPath(FormState)) = 3
    /\ Len(requests) = 2
    /\ requests[2].resp.status = 200
    /\ requests[2].resp.history # NoHistory

\* C6: a submit with an emulated history that needs no receipt sends exactly
\* one POST, for the last page of the realized path, with the loaded history
\* followed by the indices of the pages after page 0; one that needs a
\* receipt on a path of two pages or more sends the back request first and
\* then, if that succeeded, this POST.
C6_EmulatedSingleRequest ==
    Emulated =>
        LET path == RealizedPath(FormState)
            final == requests[Len(requests)].req
            submits == /\ final.page = path[Len(path)]
                       /\ final.history = tokens.history \o Tail(path)
                       /\ ~final.back /\ ~final.continue
        IN /\ ~NeededReceipt => (Len(requests) = 1 /\ submits)
           /\ (NeededReceipt /\ Len(path) = 1) => (Len(requests) = 1 /\ submits)
           /\ (NeededReceipt /\ Len(path) > 1) =>
                 /\ Len(requests) <= 2
                 /\ requests[1].req.back
                 /\ Len(requests) = 2 => submits
                 /\ err = "ok" => Len(requests) = 2

\* C6 happens: a submit with an emulated history and no receipt succeeded on
\* a path of three pages.
C6_Witness ==
    /\ Emulated /\ ~NeededReceipt /\ err = "ok"
    /\ requests[1].req.history = <<0, 1, 2>>

\* C7: a back request carries the loaded fbzx, the history "<index of the
\* final page>,<index of the submit page>" and back=1, and nothing else: no
\* draft, no entry, no continue, no captcha answer; it is the same for all
\* forms that agree on fbzx and on the final page.
C7_BackRequestCarriesNoValues ==
    \A i \in 1..Len(requests) :
        requests[i].req.back =>
            requests[i].req = [page |-> SUBMIT,
                               payload |-> <<>>,
                               fbzx |-> tokens.fbzx,
                               continue |-> FALSE,
                               history |-> <<LastPage(FormState), SUBMIT>>,
                               draft |-> Absent,
                               captcha |-> PyNone,
                               back |-> TRUE]

\* C7 happens: a back request was sent for a final page that holds a value.
C7_Witness ==
    /\ requests # <<>>
    /\ requests[1].req.back
    /\ LastPage(FormState) # SUBMIT
    /\ Page_payload(FormState, LastPage(FormState)) # <<>>

-----------------------------------------------------------------------------
(* The page graph: documents whose pages declare every kind of             *)
(* previous-action, and choice elements whose options carry actions.       *)

\* An id no page of a document has.
UnknownId == PageId(MaxPages)

\* The previous-actions a page declares: next, submit, the id of the first
\* page, the id of page 1, an unknown id.
GraphActions == {NEXT, SUBMIT, FIRST, PageId(1), UnknownId}

\* Page 0 holds two dropdowns with actions (the second one with an option
\* to an unknown id when bad), the last page one dropdown with actions.
RECURSIVE GraphPages(_, _)
GraphPages(prevs, k) ==
    IF k > Len(prevs) THEN <<>>
    ELSE <<WirePage(k, prevs[k])>>
         \o (IF k = Len(prevs) THEN <<WireDropdown(FALSE, ActionOptions)>> ELSE <<>>)
         \o GraphPages(prevs, k + 1)

GraphDocument(prevs, bad) ==
    [elements |->
         <<WireDropdown(FALSE, ActionOptions),
           WireDropdown(FALSE,
               <<WireOption(ValA, PageId(1)), WireOption(ValB, SUBMIT)>>
               \o (IF bad THEN <<WireOption(ValC, UnknownId)>> ELSE <<>>))>>
         \o GraphPages(prevs, 1),
     send_receipt |-> "UNUSED", signin_required |-> FALSE,
     fbzx |-> <<"f">>, draft |-> LoadedDraft]

GraphDocuments ==
    {GraphDocument(prevs, bad) :
        prevs \in UNION {[1..n -> GraphActions] : n \in 0..(MaxPages - 1)},
        bad \in BOOLEAN}

\* Form.load before any other call: load replaces the whole state, so a
\* load after other calls reaches no further state.
LoadGraph == last_op.op \in {"init", "load"} /\ \E doc \in GraphDocuments : Load(doc)

\* set_value with the empty value or the value of an option.
SetGraphValue ==
    \E p \in 0..(Len(pages) - 1) : \E e \in 1..Len(pages[p + 1].elements) :
        \E v \in {Value_EMPTY, Str(ValA), Str(ValB), Str(ValC)} : SetValue(p, e, v)

NextGraph ==
    \/ LoadGraph
    \/ SetGraphValue

SpecGraph == Init /\ [][NextGraph]_vars

-----------------------------------------------------------------------------
(* Claims about the page graph (SpecGraph). *)

\* page.next_page() of the page with index p, in the current state.
NextPageOf(p) == Page_next_page(FormState, p)

\* No element of the form holds a choice.
NoOptionSelected ==
    \A k \in 1..Len(pages) : \A e \in 1..Len(pages[k].elements) :
        pages[k].elements[e].value = <<>>

\* The resolved target of the option an element holds, None when it holds
\* no option or an option without a target.
SelectedTarget(el) ==
    IF el.value = <<>> \/ find_option(el, Str(el.value[1])) = 0 THEN None
    ELSE el.options[find_option(el, Str(el.value[1]))].next_page

\* C11 as stated: with pages P0, P1, P2 where P1 declares the id of P0 as
\* its previous-action and no option is selected, P0.next_page() is P1 and
\* P1.next_page() is P0.
C11_BackwardsDeclaredByP1 ==
    (is_loaded /\ Len(pages) >= 3 /\ pages[2].prev_action = pages[1].id
        /\ NoOptionSelected)
    => (NextPageOf(0) = 1 /\ NextPageOf(1) = 0)

\* C11, amended: a page's declared previous-action sets the successor of
\* the page before it.  With P1 declaring NEXT and P2 declaring the id of
\* P0, and no option selected, P0.next_page() is P1 and P1.next_page() is
\* P0; with P1 declaring the id of P0, P0.next_page() is P0 itself.
C11_BackwardsDeclaredByP2 ==
    (is_loaded /\ Len(pages) >= 3 /\ NoOptionSelected)
    => /\ (pages[2].prev_action = NEXT /\ pages[3].prev_action = pages[1].id)
              => (NextPageOf(0) = 1 /\ NextPageOf(1) = 0)
       /\ pages[2].prev_action = pages[1].id => NextPageOf(0) = 0

C11_Witness ==
    /\ is_loaded /\ last_op.op = "load" /\ err = "ok"
    /\ Len(pages) = 3 /\ NoOptionSelected
    /\ pages[2].prev_action = NEXT /\ pages[3].prev_action = pages[1].id
    /\ NextPageOf(0) = 1 /\ NextPageOf(1) = 0

\* C12: in a loaded form a page whose successor in document order declares
\* the previous-action SUBMIT has next_page() = None and no default next
\* page, and the last page has next_page() = None.
C12_SubmitAndLastPage ==
    is_loaded =>
        \A k \in 1..Len(pages) :
            /\ (k < Len(pages) /\ pages[k + 1].prev_action = SUBMIT)
                  => (NextPageOf(k - 1) = None /\ ~pages[k].has_default_next_page)
            /\ k = Len(pages) => NextPageOf(k - 1) = None

C12_Witness ==
    /\ is_loaded /\ last_op.op = "load" /\ err = "ok"
    /\ Len(pages) = 3
    /\ pages[2].prev_action = SUBMIT /\ pages[3].prev_action = NEXT
    /\ NextPageOf(0) = None /\ ~pages[1].has_default_next_page
    /\ NextPageOf(1) = 2 /\ NextPageOf(2) = None

\* The action elements of page p that hold an option with a resolved target.
Overriding(p) ==
    {e \in 1..Len(pages[p + 1].elements) :
        /\ pages[p + 1].elements[e].kind \in ActionKinds
        /\ SelectedTarget(pages[p + 1].elements[e]) # None}

\* C13 as stated: next_page() of every page is the page's resolved default
\* successor, unless action elements of the page hold an option with a
\* resolved target: then it is the target of the last such element.
C13_LastSelectedTargetWins ==
    is_loaded =>
        \A p \in 0..(Len(pages) - 1) :
            NextPageOf(p) =
                IF Overriding(p) = {} THEN pages[p + 1].next_page
                ELSE SelectedTarget(pages[p + 1].elements[
                         CHOOSE e \in Overriding(p) : \A j \in Overriding(p) : j <= e])

\* C13: a state where the override acts as stated: both dropdowns of page 0
\* hold an option with a target, the page has a default successor, and
\* next_page() is the target of the second dropdown.
C13_Witness ==
    /\ is_loaded /\ last_op.op = "set_value" /\ err = "ok"
    /\ Len(pages) >= 2 /\ pages[1].next_page = 1
    /\ Overriding(0) = {1, 2}
    /\ SelectedTarget(pages[1].elements[1]) = 0
    /\ SelectedTarget(pages[1].elements[2]) = SUBMIT
    /\ NextPageOf(0) = SUBMIT

\* C14: on the last page every option's action is ignored (its target is
\* None) and next_page() is None whatever option is selected; an element
\* that holds an option without a target overrides no transition.
C14_IgnoredActions ==
    is_loaded =>
        /\ \A e \in 1..Len(pages[Len(pages)].elements) :
              \A i \in 1..Len(pages[Len(pages)].elements[e].options) :
                  pages[Len(pages)].elements[e].options[i].next_page = None
        /\ NextPageOf(Len(pages) - 1) = None
        /\ \A k \in 1..Len(pages) : \A e \in 1..Len(pages[k].elements) :
              SelectedTarget(pages[k].elements[e]) = None
                  => pages[k].elements[e].next_page = None

C14_Witness ==
    /\ is_loaded /\ err = "ok" /\ Len(pages) >= 2
    /\ last_op = Op("set_value", Len(pages) - 1, 1)
    /\ pages[Len(pages)].elements[1].value = <<ValA>>
    /\ pages[Len(pages)].elements[1].options[1].action = FIRST
    /\ NextPageOf(Len(pages) - 1) = None

\* A page's previous-action, or an option's action on a page that has a
\* successor, names a page id that no page of the form has.
HasUnknownId ==
    \/ \E k \in 2..Len(pages) :
          pages[k].prev_action \notin {NEXT, SUBMIT} /\ ~MappingHas(pages, pages[k].prev_action)
    \/ \E k \in 1..(Len(pages) - 1) : \E e \in 1..Len(pages[k].elements) :
          \E i \in 1..Len(pages[k].elements[e].options) :
              /\ pages[k].elements[e].options[i].is_action
              /\ pages[k].elements[e].options[i].action # NEXT
              /\ ~MappingHas(pages, pages[k].elements[e].options[i].action)

\* C15 as stated: graph resolution of a form with an action or a
\* previous-action whose page id matches no page completes without raising.
C15_UnknownIdIgnored ==
    (last_op.op = "load" /\ HasUnknownId) => (err = "ok" /\ is_loaded)

\* C15: a load of a two-page form whose page 0 holds an option to an
\* unknown page id: the load raised KeyError.
C15_Witness ==
    /\ last_op.op = "load" /\ Len(pages) = 2
    /\ pages[2].prev_action = NEXT
    /\ Len(pages[1].elements[2].options) = 3
    /\ pages[1].elements[2].options[3].action = UnknownId
    /\ err = "KeyError" /\ ~is_loaded

-----------------------------------------------------------------------------
(* Form.fill on forms without page actions: what the callback's value      *)
(* makes of each element.                                                  *)

\* Page 0 holds a dropdown and a short text input, page 1 (if any) a
\* dropdown; the options carry no actions, req says which elements are
\* required.
FillDocuments ==
    {[elements |->
          <<WireDropdown(req[1], <<WireOption(ValA, None), WireOption(ValB, None)>>),
            WireShort(req[2])>>
          \o (IF n = 1 THEN <<>>
              ELSE <<WirePage(1, NEXT),
                     WireDropdown(req[3], <<WireOption(ValA, None), WireOption(ValB, None)>>)>>),
      send_receipt |-> "UNUSED", signin_required |-> FALSE,
      fbzx |-> <<"f">>, draft |-> LoadedDraft] :
        req \in [1..3 -> BOOLEAN], n \in 1..2}

\* The callbacks: a value by the element's kind, None for a callback
\* without a return statement; pick is the draw of random.choice.
FillCallbacks ==
    [given : BOOLEAN,
     short : {PyNone, Value_DEFAULT, Str(TextA)},
     drop : {PyNone, Value_DEFAULT, Str(ValB)},
     pick : {1, 3}]

LoadFill == last_op.op \in {"init", "load"} /\ \E doc \in FillDocuments : Load(doc)

\* Form.fill(callback, fill_optional) on a loaded form; the call's
\* arguments are kept with last_op.
FillWith(cb, fill_optional) ==
    /\ Running
    /\ is_loaded
    /\ \E r \in {iterate_elements(FormState, cb, fill_optional, TRUE)} :
          /\ SetForm(r.F)
          /\ err' = r.err
    /\ last_op' = [op |-> "fill", p |-> 0, e |-> 0, cb |-> cb,
                   fill_optional |-> fill_optional]
    /\ scen' = "none"
    /\ requests' = <<>>
    /\ UNCHANGED <<is_loaded, settings, tokens, prefilled_data>>

FillAnyWith ==
    \E cb \in FillCallbacks : \E fill_optional \in BOOLEAN : FillWith(cb, fill_optional)

NextFill ==
    \/ LoadFill
    \/ FillAnyWith

SpecFill == Init /\ [][NextFill]_vars

\* The elements in the order the walk visits them on a form without page
\* actions: <<page index, element number>>.
Positions ==
    UNION {{<<k - 1, e>> : e \in 1..Len(pages[k].elements)} : k \in 1..Len(pages)}
Before(q, r) == q[1] < r[1] \/ (q[1] = r[1] /\ q[2] < r[2])

\* The value the fill has for the element at q before default_callback.
GivenValue(cb, q) ==
    IF cb.given THEN CallbackValue(cb, q[1], pages[q[1] + 1].elements[q[2]])
    ELSE Value_DEFAULT

\* The fill gets past the element at q: the value it has for q is neither
\* None nor a default that default_callback cannot choose (a text input).
Fillable(cb, fill_optional, q) ==
    /\ GivenValue(cb, q) # PyNone
    /\ ~ /\ GivenValue(cb, q) = Value_DEFAULT
         /\ pages[q[1] + 1].elements[q[2]].kind = "SHORT"
         /\ pages[q[1] + 1].elements[q[2]].required \/ fill_optional

\* The fill reaches the element at q.
Reached(cb, fill_optional, q) ==
    \A r \in Positions : Before(r, q) => Fillable(cb, fill_optional, r)

\* The value an element holds after set_value(default_callback(el)).
SynthValue(el, pick) ==
    IF default_callback(el, pick).v = Value_EMPTY THEN <<>>
    ELSE <<el.options[default_callback(el, pick).v.i].value>>

\* C16: a fill whose callback returns None for an element fails and leaves
\* the form not validated; the first such element and every element after
\* it are left as they were; the error is ValueError when the fill reaches
\* that element, and the plain ValueError of that test has no other cause
\* (InfiniteLoop and ValidationError are reported under their own names).
C16_NoneRaisesValueError ==
    [][last_op'.op = "fill" =>
          /\ err' = "ValueError" =>
                \E q \in Positions : GivenValue(last_op'.cb, q) = PyNone
          /\ \A q \in Positions :
                (/\ GivenValue(last_op'.cb, q) = PyNone
                 /\ \A r \in Positions :
                       GivenValue(last_op'.cb, r) = PyNone => ~Before(r, q))
                => /\ err' # "ok"
                   /\ ~is_validated'
                   /\ \A r \in Positions :
                         ~Before(r, q) =>
                            pages'[r[1] + 1].elements[r[2]] = pages[r[1] + 1].elements[r[2]]
                   /\ Reached(last_op'.cb, last_op'.fill_optional, q)
                         => err' = "ValueError"]_vars

\* C16: the callback gave the dropdown of page 0 a value and returned None
\* for the text input after it: ValueError, the text input and the dropdown
\* of page 1 hold what an earlier fill left.
C16_Witness ==
    /\ last_op.op = "fill" /\ err = "ValueError" /\ ~is_validated
    /\ last_op.cb.given /\ last_op.cb.drop = Str(ValB) /\ last_op.cb.short = PyNone
    /\ Len(pages) = 2
    /\ pages[1].elements[1].value = <<ValB>>
    /\ pages[1].elements[2].value = <<TextA>>
    /\ pages[2].elements[1].value = <<ValA>>

\* C17: for every element the fill reaches with the value Value.DEFAULT
\* (from the callback, or without a callback), default_callback is called
\* if and only if the element is required or fill_optional is true (a
\* dropdown then holds the drawn choice, a text input raises
\* NotImplementedError); otherwise the element is set to the empty value.
C17_DefaultGate ==
    [][last_op'.op = "fill" =>
          /\ err' = "NotImplementedError" =>
                \E q \in Positions :
                    /\ GivenValue(last_op'.cb, q) = Value_DEFAULT
                    /\ pages[q[1] + 1].elements[q[2]].required \/ last_op'.fill_optional
          /\ \A q \in Positions :
                (/\ GivenValue(last_op'.cb, q) = Value_DEFAULT
                 /\ Reached(last_op'.cb, last_op'.fill_optional, q))
                => IF pages[q[1] + 1].elements[q[2]].required \/ last_op'.fill_optional
                   THEN IF pages[q[1] + 1].elements[q[2]].kind = "SHORT"
                        THEN err' = "NotImplementedError"
                        ELSE pages'[q[1] + 1].elements[q[2]].value =
                                 SynthValue(pages[q[1] + 1].elements[q[2]], last_op'.cb.pick)
                   ELSE pages'[q[1] + 1].elements[q[2]].value = <<>>]_vars

\* C17: fill(callback, fill_optional=True) whose callback returns
\* Value.DEFAULT for dropdowns drew the first option for the optional
\* dropdown of page 0.
C17_Witness ==
    /\ last_op.op = "fill" /\ err = "ok"
    /\ last_op.fill_optional /\ last_op.cb.given
    /\ last_op.cb.drop = Value_DEFAULT /\ last_op.cb.pick = 1
    /\ ~pages[1].elements[1].required
    /\ pages[1].elements[1].value = <<ValA>>

-----------------------------------------------------------------------------
(* Validated inputs: one-page forms that hold one text input, one          *)
(* Checkboxes element or one grid (of one or two columns, or a square      *)
(* single-choice grid of one row more), with every validator of interest.  *)

\* The value of the i-th option (or grid column).
OptionName(i) == <<"O", DigitChars[i + 1]>>
PlainOptions(n) == [i \in 1..n |-> WireOption(OptionName(i), None)]

\* A choice list: the values of the options in S, in the element's order.
RECURSIVE SubsetSeq(_, _)
SubsetSeq(S, i) ==
    IF i > MaxOptions + MaxRows THEN <<>>
    ELSE (IF i \in S THEN <<OptionName(i)>> ELSE <<>>) \o SubsetSeq(S, i + 1)

ShortValidators ==
    {NoValidator, NewValidator("UNKNOWN", "UNKNOWN", <<>>, FALSE),
     NewValidator("NUMBER", "UNKNOWN", <<>>, FALSE),
     NewValidator("NUMBER", "RANGE", <<>>, TRUE)} \cup
    {NewValidator("NUMBER", "RANGE", <<a, b>>, FALSE) : a, b \in {0, 10, 100}}
CheckboxValidators ==
    {NoValidator, NewValidator("UNKNOWN", "UNKNOWN", <<>>, FALSE),
     NewValidator("DEFAULT", "UNKNOWN", <<>>, FALSE),
     NewValidator("DEFAULT", "EXACTLY", <<>>, TRUE)} \cup
    {NewValidator("DEFAULT", sub, <<k>>, FALSE) :
        sub \in {"AT_LEAST", "AT_MOST", "EXACTLY"}, k \in 1..(MaxOptions + 1)}
GridValidators ==
    {NoValidator, NewValidator("UNKNOWN", "UNKNOWN", <<>>, FALSE),
     NewValidator("DEFAULT", "UNKNOWN", <<>>, FALSE),
     NewValidator("DEFAULT", "EXCLUSIVE_COLUMNS", <<>>, FALSE)}

ValidatedElements ==
    {WireValidated("SHORT", req, <<>>, FALSE, 0, FALSE, va) :
        req \in BOOLEAN, va \in ShortValidators}
    \cup {WireValidated("CHECKBOXES", req, PlainOptions(n), other, 0, TRUE, va) :
             req \in BOOLEAN, n \in 1..MaxOptions, other \in BOOLEAN,
             va \in CheckboxValidators}
    \cup {WireValidated("GRID", req, PlainOptions(cols), FALSE, rows, multi, va) :
             req \in BOOLEAN, cols \in 1..2, rows \in 1..MaxRows,
             multi \in BOOLEAN, va \in GridValidators}
    \cup {WireValidated("GRID", req, PlainOptions(MaxRows + 1), FALSE, MaxRows + 1, FALSE,
                        NewValidator("DEFAULT", "EXCLUSIVE_COLUMNS", <<>>, FALSE)) :
             req \in BOOLEAN}

\* The values set_value is called with, by the element's class.
ValidatedValues(el) ==
    {Value_EMPTY} \cup
    IF el.kind = "SHORT" THEN {Str(<<"5">>), Str(<<"5", "0">>), Str(<<"x">>)}
    ELSE IF el.kind = "CHECKBOXES"
    THEN {Choices(SubsetSeq(S, 1) \o other) :
             S \in SUBSET (1..Len(el.options)), other \in {<<>>, <<TextA>>}}
    ELSE {GridChoices(rows) :
             rows \in [1..el.rows ->
                          {SubsetSeq(S, 1) : S \in {T \in SUBSET (1..Len(el.options)) :
                                                       el.multichoice \/ Cardinality(T) <= 1}}]}

\* Form.load before any other call.
LoadValidated ==
    /\ last_op.op = "init"
    /\ \E w \in ValidatedElements :
          Load([elements |-> <<w>>, send_receipt |-> "UNUSED", signin_required |-> FALSE,
                fbzx |-> <<"f">>, draft |-> LoadedDraft])

SetValidatedValue ==
    /\ is_loaded
    /\ \E v \in ValidatedValues(pages[1].elements[1]) : SetValue(0, 1, v)

NextValidators ==
    \/ LoadValidated
    \/ SetValidatedValue
    \/ ValidateAnyElement

SpecValidators == Init /\ [][NextValidators]_vars

-----------------------------------------------------------------------------
(* Claims about validated inputs (SpecValidators). *)

\* The element of the form, once loaded.
TheElement == pages[1].elements[1]

\* The element has a validator of a known type with parsed arguments.
KnownValidator(el) ==
    el.validator # NoValidator /\ ~has_unknown_type(el.validator) /\ ~el.validator.bad_args

\* C18 as stated: an element with an unsatisfiable validator (a Short with
\* RANGE(a, b), a > b; Checkboxes with EXACTLY / AT_LEAST k above the number
\* of options; a RadioGrid with EXCLUSIVE_COLUMNS and fewer columns than
\* rows) raises MisconfiguredElement from validate() with a non-empty value,
\* required or not, and an optional one validates with the empty value.
C18_MisconfiguredWhateverRequired ==
    (/\ is_loaded /\ last_op = Op("validate_element", 0, 1)
     /\ KnownValidator(TheElement) /\ Element_is_misconfigured(TheElement)
     /\ TheElement.kind = "GRID" => ~TheElement.multichoice)
    => IF ~is_empty(TheElement) THEN err = "MisconfiguredElement"
       ELSE (~TheElement.required => err = "ok")

\* C18: a required Short with RANGE(100, 0) holds '50': validate() raised
\* MisconfiguredElement.
C18_Witness ==
    /\ is_loaded /\ last_op = Op("validate_element", 0, 1)
    /\ TheElement.kind = "SHORT" /\ TheElement.required
    /\ TheElement.validator = NewValidator("NUMBER", "RANGE", <<100, 0>>, FALSE)
    /\ TheElement.value = <<<<"5", "0">>>>
    /\ err = "MisconfiguredElement"

\* C19 as stated: a grid is misconfigured if and only if it is required,
\* single-choice and has fewer columns than rows.
C19_GridMisconfiguredSingleChoice ==
    (is_loaded /\ TheElement.kind = "GRID")
    => (is_misconfigured(TheElement)
        <=> (/\ TheElement.required /\ ~TheElement.multichoice
             /\ Len(TheElement.options) < TheElement.rows))

\* C19, amended: a grid is misconfigured if and only if it is required,
\* carries an EXCLUSIVE_COLUMNS validator and has fewer columns than rows,
\* be it single-choice or multi-choice; validate() raises
\* MisconfiguredElement exactly for such grids.
C19_GridMisconfiguredExclusive ==
    (is_loaded /\ TheElement.kind = "GRID")
    => /\ is_misconfigured(TheElement)
          <=> (/\ TheElement.required
               /\ TheElement.validator = NewValidator("DEFAULT", "EXCLUSIVE_COLUMNS", <<>>, FALSE)
               /\ Len(TheElement.options) < TheElement.rows)
       /\ last_op = Op("validate_element", 0, 1)
          => (err = "MisconfiguredElement" <=> is_misconfigured(TheElement))

\* C19: a required multi-choice grid with EXCLUSIVE_COLUMNS, one column and
\* two rows: validate() raised MisconfiguredElement.
C19_Witness ==
    /\ is_loaded /\ last_op = Op("validate_element", 0, 1)
    /\ TheElement.kind = "GRID" /\ TheElement.required /\ TheElement.multichoice
    /\ TheElement.validator = NewValidator("DEFAULT", "EXCLUSIVE_COLUMNS", <<>>, FALSE)
    /\ Len(TheElement.options) = 1 /\ TheElement.rows = 2
    /\ err = "MisconfiguredElement"

\* EXACTLY(2) on three options: one chosen fails, two pass, three fail with
\* InvalidChoiceCount.
ExactlyTwoOfThree ==
    (/\ TheElement.validator = NewValidator("DEFAULT", "EXACTLY", <<2>>, FALSE)
     /\ Len(TheElement.options) = 3 /\ TheElement.other_value = PyNone)
    => /\ Len(TheElement.value) = 1 => err # "ok"
       /\ Len(TheElement.value) = 2 => err = "ok"
       /\ Len(TheElement.value) = 3 => err = "InvalidChoiceCount"

-----------------------------------------------------------------------------
(* Claims about the grid validator (SpecValidators). *)

ExclusiveColumns == NewValidator("DEFAULT", "EXCLUSIVE_COLUMNS", <<>>, FALSE)

\* Column c is chosen in row r and in an earlier row of the grid.
RepeatedAt(el, c, r) ==
    /\ \E i \in 1..Len(el.value[r]) : el.value[r][i] = c
    /\ \E q \in 1..(r - 1) : \E i \in 1..Len(el.value[q]) : el.value[q][i] = c
ColumnRepeated(el) ==
    \E r \in 1..Len(el.value) : \E k \in 1..Len(el.options) :
        RepeatedAt(el, el.options[k].value, r)

\* The reported column is repeated at the first row that repeats a column.
ReportsFirstRepeated(el) ==
    /\ same_column(el) # PyNone
    /\ \E r \in 1..Len(el.value) :
          /\ RepeatedAt(el, same_column(el).s, r)
          /\ \A q \in 1..(r - 1) : \A k \in 1..Len(el.options) :
                 ~RepeatedAt(el, el.options[k].value, q)

-----------------------------------------------------------------------------
(* Claims about validators that could not be parsed (SpecValidators). *)

\* The element's validator has an unknown type or subtype, or arguments
\* that could not be parsed.
Permissive(el) ==
    el.validator # NoValidator /\ (has_unknown_type(el.validator) \/ el.validator.bad_args)

\* C22: a validator with bad_args, or of an unrecognized type or subtype,
\* accepts every value and never makes its element misconfigured:
\* validate() of the element raises only what the element's own checks
\* raise.
C22_PermissiveValidator ==
    (is_loaded /\ Permissive(TheElement))
    => /\ Validator_validate(TheElement) = "ok"
       /\ ~is_misconfigured(TheElement)
       /\ last_op = Op("validate_element", 0, 1) => err = ValidateEntries(TheElement)

\* C22: Checkboxes with a validator of a known type and an unknown subtype
\* hold every option and "Other": validate() passed.
C22_Witness ==
    /\ is_loaded /\ last_op = Op("validate_element", 0, 1)
    /\ TheElement.kind = "CHECKBOXES"
    /\ TheElement.validator = NewValidator("DEFAULT", "UNKNOWN", <<>>, FALSE)
    /\ Len(TheElement.value) = MaxOptions /\ TheElement.other_value = Str(TextA)
    /\ err = "ok"

-----------------------------------------------------------------------------
(* Single elements: one-page forms that hold one input element of each     *)
(* class, its set_value and its payload().                                 *)

\* A payload is a set of [key, value]: the key of an entry is
\* <<"entry", i>> for the i-th entry id of the element, followed by the
\* name of a part ("entry.<id>.other_option_response", "entry.<id>_hour").
EntryKey(i) == <<"entry", i>>
PartKey(i, part) == <<"entry", i, part>>
OtherSentinel == <<"__other_option__">>

\* InputElement.payload that has a key for every entry, empty or not.
InputElement_payload_every_entry(el) ==
    IF el.kind = "GRID"
    THEN {[key |-> EntryKey(r), value |-> el.value[r]] : r \in 1..Len(el.value)}
    ELSE {[key |-> EntryKey(1), value |-> el.value]}

\* InputElement.payload: the entries that have a value.
InputElement_payload(el) ==
    IF el.kind = "GRID"
    THEN {[key |-> EntryKey(r), value |-> el.value[r]] :
             r \in {q \in 1..Len(el.value) : el.value[q] # <<>>}}
    ELSE IF el.value # <<>> THEN {[key |-> EntryKey(1), value |-> el.value]} ELSE {}

\* OtherChoiceInput.payload that sends only the response of "Other".
OtherChoiceInput_payload_no_sentinel(el) ==
    IF el.other_value = PyNone \/ el.other_value = Str(<<>>) THEN InputElement_payload(el)
    ELSE InputElement_payload(el)
         \cup {[key |-> PartKey(1, "other_option_response"), value |-> <<el.other_value.s>>]}

\* OtherChoiceInput.payload: with an "Other" value that is not empty, the
\* sentinel joins the main entry and the value goes under its own key.
OtherChoiceInput_payload(el) ==
    IF el.other_value = PyNone \/ el.other_value = Str(<<>>) THEN InputElement_payload(el)
    ELSE {[key |-> EntryKey(1), value |-> Append(el.value, OtherSentinel)],
          [key |-> PartKey(1, "other_option_response"), value |-> <<el.other_value.s>>]}

\* TimeInput.payload and DateInput.payload (a Date with a year field).
TimeInput_payload(el) ==
    {[key |-> PartKey(1, part), value |-> el[part]] :
        part \in {q \in {"hour", "minute", "second"} : el[q] # None}}
DateInput_payload(el) ==
    IF el.date = <<>> THEN {}
    ELSE {[key |-> PartKey(1, "month"), value |-> el.date[2]],
          [key |-> PartKey(1, "day"), value |-> el.date[3]],
          [key |-> PartKey(1, "year"), value |-> el.date[1]]}

\* element.payload(), by the element's class.
Element_payload(el) ==
    IF el.kind = "EMAIL" THEN {[key |-> <<"emailAddress">>, value |-> el.value]}
    ELSE IF el.kind = "TIME" THEN TimeInput_payload(el)
    ELSE IF el.kind = "DATE" THEN DateInput_payload(el)
    ELSE IF el.kind \in {"RADIO", "CHECKBOXES"} THEN OtherChoiceInput_payload(el)
    ELSE InputElement_payload(el)

TextX == <<"X">>
ScaleOptions == <<WireOption(<<"1">>, None), WireOption(<<"2">>, None)>>

SingleElements ==
    {WireDropdown(req, PlainOptions(n)) : req \in BOOLEAN, n \in 1..2}
    \cup {WireChoice("SCALE", req, ScaleOptions, FALSE) : req \in BOOLEAN}
    \cup {WireChoice("RADIO", req, PlainOptions(n), other) :
             req \in BOOLEAN, n \in 1..2, other \in BOOLEAN}
    \cup {WireValidated("CHECKBOXES", req, PlainOptions(n), other, 0, TRUE, NoValidator) :
             req \in BOOLEAN, n \in 1..2, other \in BOOLEAN}
    \cup {WireValidated("GRID", req, PlainOptions(2), FALSE, 2, multi, NoValidator) :
             req \in BOOLEAN, multi \in BOOLEAN}
    \cup {WireValidated("SHORT", req, <<>>, FALSE, 0, FALSE, NoValidator) : req \in BOOLEAN}
    \cup {WireTimed(type, req) : type \in {"TIME", "DATE"}, req \in BOOLEAN}
    \cup {WireEmail}

\* The values set_value is called with, by the element's class; the empty
\* string and a string that is no option are among them.
SingleValues(el) ==
    {Value_EMPTY} \cup
    IF el.kind \in {"SHORT", "EMAIL"} THEN {Str(<<>>), Str(TextA)}
    ELSE IF el.kind = "TIME" THEN {[t |-> "time", hour |-> 7, minute |-> 30]}
    ELSE IF el.kind = "DATE" THEN {[t |-> "date", year |-> 2024, month |-> 2, day |-> 29]}
    ELSE IF el.kind = "SCALE"
    THEN {Str(<<>>), Str(TextX), Str(<<"1">>), [t |-> "int", n |-> 2]}
    ELSE IF el.kind \in {"DROPDOWN", "RADIO"} THEN {Str(<<>>), Str(TextX), Str(OptionName(1))}
    ELSE IF el.kind = "CHECKBOXES"
    THEN {Str(<<>>), Str(TextX)} \cup
         {Choices(SubsetSeq(S, 1) \o extra) :
             S \in SUBSET (1..Len(el.options)), extra \in {<<>>, <<TextX>>, <<<<>>>>}}
    ELSE {GridChoices(rows) :
             rows \in [1..el.rows ->
                          {<<<<>>>>} \cup
                          {SubsetSeq(S, 1) : S \in {T \in SUBSET (1..Len(el.options)) :
                                                       el.multichoice \/ Cardinality(T) <= 1}}]}

\* Form.load before any other call.
LoadSingle ==
    /\ last_op.op = "init"
    /\ \E w \in SingleElements :
          Load([elements |-> <<w>>, send_receipt |-> "UNUSED", signin_required |-> FALSE,
                fbzx |-> <<"f">>, draft |-> LoadedDraft])

\* element.set_value(v) on the element of the form; v is remembered.
SetSingleValue ==
    /\ is_loaded
    /\ \E v \in SingleValues(pages[1].elements[1]) :
          /\ \E r \in {Element_set_value(FormState, 0, 1, v)} : SetForm(r.F) /\ err' = r.err
          /\ last_op' = [op |-> "set_value", p |-> 0, e |-> 1, v |-> v]
    /\ scen' = "none"
    /\ requests' = <<>>
    /\ UNCHANGED <<is_loaded, settings, tokens, prefilled_data>>

\* element.payload() on the element of the form: nothing changes; the
\* result is remembered with the call before it and what that call raised.
GetPayload ==
    /\ is_loaded
    /\ last_op.op # "payload"
    /\ last_op' = [op |-> "payload", p |-> 0, e |-> 1, after |-> last_op, raised |-> err,
                   result |-> Element_payload(pages[1].elements[1])]
    /\ err' = "ok"
    /\ UNCHANGED <<is_loaded, pages, selected_pages, unvalidated_pages, found_full_path,
                   settings, tokens, prefilled_data, scen, requests>>

NextSingle ==
    \/ LoadSingle
    \/ SetSingleValue
    \/ GetPayload

SpecSingle == Init /\ [][NextSingle]_vars

-----------------------------------------------------------------------------
(* Claims about single elements (SpecSingle). *)

\* The element is a ChoiceInput without an "Other" option.
ChoiceWithoutOther(el) ==
    \/ el.kind \in {"DROPDOWN", "SCALE", "GRID"}
    \/ el.kind \in {"RADIO", "CHECKBOXES"} /\ ~el.other_option

EmptyString == Str(<<>>)

\* C23: on a choice input without an "Other" option, set_value with the
\* empty string, alone or in a list of choices, raises InvalidChoice, and
\* a grid set with the empty string for a row raises InvalidRowChoice.
C23_EmptyStringInvalidChoice ==
    (is_loaded /\ last_op.op = "set_value" /\ ChoiceWithoutOther(TheElement))
    => /\ last_op.v = EmptyString => err = "InvalidChoice"
       /\ (last_op.v.t = "list" /\ \E i \in 1..Len(last_op.v.items) : last_op.v.items[i] = <<>>)
          => err = "InvalidChoice"
       /\ (last_op.v.t = "grid" /\ \E r \in 1..Len(last_op.v.rows) : last_op.v.rows[r] = <<<<>>>>)
          => err = "InvalidRowChoice"

\* C23: a multi-choice grid was set with its first column for the first
\* row and the empty string for the second: InvalidRowChoice.
C23_Witness ==
    /\ is_loaded /\ last_op.op = "set_value"
    /\ TheElement.kind = "GRID" /\ TheElement.multichoice
    /\ last_op.v = GridChoices(<<<<OptionName(1)>>, <<<<>>>>>>)
    /\ err = "InvalidRowChoice"

\* C24: payload() of a Radio or Checkboxes element whose "Other" option is
\* chosen with a value that is not empty holds exactly two keys: the main
\* entry with the chosen regular options followed by "__other_option__"
\* (the sentinel alone when only "Other" is chosen), and
\* other_option_response with the value.
C24_OtherPayload ==
    (/\ is_loaded /\ last_op.op = "payload"
     /\ TheElement.kind \in {"RADIO", "CHECKBOXES"} /\ TheElement.other_option
     /\ TheElement.other_value \notin {PyNone, EmptyString})
    => /\ last_op.result =
              {[key |-> EntryKey(1), value |-> TheElement.value \o <<OtherSentinel>>],
               [key |-> PartKey(1, "other_option_response"),
                value |-> <<TheElement.other_value.s>>]}
       /\ TheElement.value = <<>>
          => \E r \in last_op.result : r.key = EntryKey(1) /\ r.value = <<OtherSentinel>>

\* Checkboxes were set to the first option and "X": the payload has
\* the option, then the sentinel, under the main key and "X" under the
\* other key.
OtherAfterOptions ==
    /\ is_loaded /\ last_op.op = "payload" /\ last_op.raised = "ok"
    /\ last_op.after.op = "set_value"
    /\ last_op.after.v = Choices(<<OptionName(1), TextX>>)
    /\ TheElement.kind = "CHECKBOXES"
    /\ last_op.result =
           {[key |-> EntryKey(1), value |-> <<OptionName(1), OtherSentinel>>],
            [key |-> PartKey(1, "other_option_response"), value |-> <<TextX>>]}

\* C24: only "Other" was chosen, as "X", on a Radio: the payload is the
\* sentinel and "X".
C24_Witness ==
    /\ is_loaded /\ last_op.op = "payload" /\ last_op.raised = "ok"
    /\ last_op.after.op = "set_value" /\ last_op.after.v = Str(TextX)
    /\ TheElement.kind = "RADIO" /\ TheElement.other_option
    /\ last_op.result =
           {[key |-> EntryKey(1), value |-> <<OtherSentinel>>],
            [key |-> PartKey(1, "other_option_response"), value |-> <<TextX>>]}

\* payload() was called on an element that is unset: right after load, or
\* after a set_value(Value.EMPTY).
PayloadOfUnset ==
    /\ is_loaded /\ last_op.op = "payload"
    /\ \/ last_op.after.op = "load"
       \/ last_op.after.op = "set_value" /\ last_op.after.v = Value_EMPTY

\* C25 as stated: the payload of every input element that is unset is the
\* empty map.
C25_UnsetPayloadEmpty ==
    PayloadOfUnset => last_op.result = {}

\* C25, amended: the payload of every input element decoded from the
\* document, when unset, is the empty map; that of the virtual UserEmail
\* element is the key emailAddress with the empty list.
C25_UnsetDecodedPayloadEmpty ==
    PayloadOfUnset
    => last_op.result = IF TheElement.kind = "EMAIL"
                        THEN {[key |-> <<"emailAddress">>, value |-> <<>>]} ELSE {}

\* C25: Checkboxes with an "Other" option were set to Value.EMPTY: the
\* payload is empty.
C25_Witness ==
    /\ PayloadOfUnset /\ last_op.after.op = "set_value" /\ last_op.raised = "ok"
    /\ TheElement.kind = "CHECKBOXES" /\ TheElement.other_option
    /\ last_op.result = {}

-----------------------------------------------------------------------------
(* Form.reset and Form.clear, on forms loaded from a plain or a pre-filled *)
(* link.                                                                   *)

\* Form.reset: element.prefill(self._prefilled_data) for every input element.
Form_reset(F, data) == PrefillFrom(F, data, 0, 1)

\* Form.reset()
Reset ==
    /\ Running
    /\ \/ NotLoaded("reset")
       \/ /\ is_loaded
          /\ SetForm(Form_reset(FormState, prefilled_data))
          /\ err' = "ok"
          /\ last_op' = Op("reset", 0, 0)
          /\ scen' = "none"
          /\ requests' = <<>>
          /\ UNCHANGED <<is_loaded, settings, tokens, prefilled_data>>

\* Form.clear: set_value(Value.EMPTY) on every input element, in document
\* order, up to the first that raises.
RECURSIVE ClearFrom(_, _, _)
ClearNext(r, p, e) == IF r.err # "ok" THEN r ELSE ClearFrom(r.F, p, e + 1)
ClearFrom(F, p, e) ==
    IF p >= Len(F.pages) THEN Res(F, "ok")
    ELSE IF e > Len(PageAt(F, p).elements) THEN ClearFrom(F, p + 1, 1)
    ELSE ClearNext(Element_set_value(F, p, e, Value_EMPTY), p, e)

\* Form.clear()
Clear ==
    /\ Running
    /\ \/ NotLoaded("clear")
       \/ /\ is_loaded
          /\ \E r \in {ClearFrom(FormState, 0, 1)} : SetForm(r.F) /\ err' = r.err
          /\ last_op' = Op("clear", 0, 0)
          /\ scen' = "none"
          /\ requests' = <<>>
          /\ UNCHANGED <<is_loaded, settings, tokens, prefilled_data>>

\* The documents: a short text input and a dropdown on the first page and,
\* on forms of two pages, a short text input on the second; any of the
\* entries may be prefilled by the link.
ResetPrefills ==
    {[q \in S |-> IF q[2] = 2 THEN <<ValB>> ELSE <<TextA>>] :
        S \in SUBSET {<<0, 1>>, <<0, 2>>, <<1, 1>>}}
ResetDocument(req, n, pre) ==
    [elements |-> <<WireShort(req),
                    WireDropdown(FALSE, PlainOptions(2) \o <<WireOption(ValB, None)>>)>>
                  \o (IF n = 2 THEN <<WirePage(1, NEXT), WireShort(FALSE)>> ELSE <<>>),
     send_receipt |-> "UNUSED", signin_required |-> FALSE,
     fbzx |-> <<"f">>, draft |-> LoadedDraft, prefilled |-> pre]
ResetDocuments ==
    {ResetDocument(req, c[1], c[2]) :
        req \in BOOLEAN,
        c \in {d \in (1..2) \X ResetPrefills : d[1] = 2 \/ <<1, 1>> \notin DOMAIN d[2]}}

LoadReset == last_op.op \in {"init", "load"} /\ \E doc \in ResetDocuments : Load(doc)

ResetValues(el) ==
    IF el.kind = "SHORT" THEN {Value_EMPTY, Str(TextA), Str(TextX)}
    ELSE {Value_EMPTY, Str(ValB), Str(OptionName(1)), Str(ValZ)}

SetResetValue ==
    \E p \in 0..(Len(pages) - 1) : \E e \in 1..Len(pages[p + 1].elements) :
        \E v \in ResetValues(pages[p + 1].elements[e]) : SetValue(p, e, v)

NextReset ==
    \/ LoadReset
    \/ SetResetValue
    \/ Reset
    \/ Clear

SpecReset == Init /\ [][NextReset]_vars

\* The value an element holds right after load: its prefilled value, or
\* the empty value.
LoadedValue(p, e) ==
    IF <<p, e>> \in DOMAIN prefilled_data THEN prefilled_data[<<p, e>>] ELSE <<>>

\* C26 as stated: after Form.reset() every input element holds the value it
\* had right after load, whatever was set in between, and no request was
\* made.
C26_ResetRestoresLoadedValues ==
    (is_loaded /\ last_op.op = "reset")
    => /\ err = "ok" /\ requests = <<>>
       /\ \A p \in 0..(Len(pages) - 1) : \A e \in 1..Len(pages[p + 1].elements) :
              ElemAt(FormState, p, e).value = LoadedValue(p, e)

\* C26: a form loaded from a link that prefills the short text input with
\* "a": after reset() the input holds "a" and awaits validation.
C26_Witness ==
    /\ is_loaded /\ last_op.op = "reset" /\ err = "ok" /\ requests = <<>>
    /\ <<0, 1>> \in DOMAIN prefilled_data
    /\ ElemAt(FormState, 0, 1).value = <<TextA>>
    /\ ~ElemAt(FormState, 0, 1).is_validated

-----------------------------------------------------------------------------
(* The receipt of a submit. *)

\* C27: in a submit on a loaded, validated form the receipt is needed as
\* the need_receipt argument says when settings.send_receipt is OPT_IN, and
\* exactly when send_receipt is ALWAYS otherwise; when it is needed and
\* there is no captcha handler the submit raises ValueError and no request
\* is sent, ValueError is raised in no other case, and a submit that
\* succeeds has sent a solved captcha with its last POST exactly when the
\* receipt was needed.
C27_EffectiveNeedReceipt ==
    (last_op.op = "submit" /\ is_loaded /\ is_validated) =>
        /\ (NeededReceipt /\ ~last_op.has_handler) =>
               (err = "ValueError" /\ requests = <<>>)
        /\ ~(NeededReceipt /\ ~last_op.has_handler) => err # "ValueError"
        /\ err = "ok" =>
               ((requests[Len(requests)].req.captcha # PyNone) <=> NeededReceipt)

\* C27 happens: need_receipt was not asked for, the form always sends a
\* receipt, and the submit without a captcha handler raised ValueError.
C27_Witness ==
    /\ last_op.op = "submit" /\ is_loaded /\ is_validated
    /\ settings.send_receipt = "ALWAYS" /\ ~last_op.need_receipt
    /\ ~last_op.has_handler
    /\ err = "ValueError" /\ requests = <<>>

\* A submit that asked for a receipt on a form that never sends one went
\* through without a captcha handler.
ReceiptNotEffective ==
    /\ last_op.op = "submit" /\ settings.send_receipt = "NEVER"
    /\ last_op.need_receipt /\ ~last_op.has_handler
    /\ err = "ok"

-----------------------------------------------------------------------------
(* Responses to the GET of a load and to the POSTs of a submit. *)

\* The GET of Form.load, as the log of requests holds it.
GetRequest == [method |-> "GET"]

\* The responses to the GET of a load.
LoadResponses ==
    {Response(c[1], c[2], NoHistory, 0) :
        c \in {<<200, FormsUrl("viewform")>>,
               <<200, FormsUrl("formResponse")>>,
               <<404, FormsUrl("viewform")>>,
               <<410, FormsUrl("closedform")>>,
               <<404, AccountsUrl("editingdisabled")>>,
               <<401, FormsUrl("viewform")>>,
               <<401, FormsUrl("closedform")>>,
               <<200, AccountsUrl("signin")>>,
               <<200, AccountsUrl("closedform")>>,
               <<200, FormsUrl("closedform")>>,
               <<200, FormsUrl("editingdisabled")>>}}

\* Form._parse_url: a final URL that is not the URL of a form.
parse_url(url) == IF url.path_end # "viewform" THEN "InvalidURL" ELSE "ok"

\* What Form.load raises on the response to its GET, before it parses the
\* document.
load_result(resp) ==
    IF check_resp(resp) # "ok" THEN check_resp(resp) ELSE parse_url(resp.url)

\* Form.load that keeps the form it held when the response is rejected.
LoadRejected_keeps_form(resp) ==
    /\ Running
    /\ load_result(resp) # "ok"
    /\ err' = load_result(resp)
    /\ last_op' = Op("load", 0, 0)
    /\ scen' = "none"
    /\ requests' = <<[req |-> GetRequest, resp |-> resp]>>
    /\ UNCHANGED <<is_loaded, pages, selected_pages, unvalidated_pages,
                   found_full_path, settings, tokens, prefilled_data>>

\* Form.load whose GET was answered with a response that is rejected: the
\* form stays as _clear left it.
LoadRejected(resp) ==
    /\ Running
    /\ load_result(resp) # "ok"
    /\ is_loaded' = FALSE
    /\ SetForm([pages |-> <<>>, sel |-> {}, unval |-> {}, found |-> FALSE])
    /\ settings' = DefaultSettings
    /\ tokens' = NoTokens
    /\ prefilled_data' = <<>>
    /\ err' = load_result(resp)
    /\ last_op' = Op("load", 0, 0)
    /\ scen' = "none"
    /\ requests' = <<[req |-> GetRequest, resp |-> resp]>>

\* Form.load(url): the GET is answered with a response, and with the
\* document when the response is accepted.
LoadAnswered ==
    \E resp \in LoadResponses :
        \/ LoadRejected(resp)
        \/ /\ load_result(resp) = "ok"
           /\ \E doc \in {WalkDocument(<<NEXT>>), WalkDocument(<<>>)} : Load(doc)

NextResponses ==
    \/ LoadAnswered
    \/ SetSubmitValue
    \/ Validate
    \/ SubmitAny

SpecResponses == Init /\ [][NextResponses]_vars

\* The conditions of the classification, on a response.
Gone(resp) == resp.status \in {404, 410}
AsksSignIn(resp) == resp.status = 401 \/ resp.url.netloc = "accounts.google.com"
EndsClosed(resp) == resp.url.path_end = "closedform"
EndsDisabled(resp) == resp.url.path_end = "editingdisabled"
Rejected(resp) == Gone(resp) \/ AsksSignIn(resp) \/ EndsClosed(resp) \/ EndsDisabled(resp)

LastResponse == requests[Len(requests)].resp

\* C28: after a load or a submit that got a response, the last response
\* decides the error: NoSuchForm when its status is 404 or 410; else
\* SigninRequired when its status is 401 or its URL is on
\* accounts.google.com; else ClosedForm when its URL ends in closedform;
\* else EditingDisabled when it ends in editingdisabled; one of these
\* errors is raised only so; and no request follows a response that meets
\* one of the conditions (a load sends one GET).
C28_ResponsePrecedence ==
    (last_op.op \in {"load", "submit"} /\ requests # <<>>) =>
        /\ Gone(LastResponse) => err = "NoSuchForm"
        /\ (~Gone(LastResponse) /\ AsksSignIn(LastResponse)) => err = "SigninRequired"
        /\ (~Gone(LastResponse) /\ ~AsksSignIn(LastResponse) /\ EndsClosed(LastResponse))
               => err = "ClosedForm"
        /\ (~Gone(LastResponse) /\ ~AsksSignIn(LastResponse) /\ ~EndsClosed(LastResponse)
               /\ EndsDisabled(LastResponse))
               => err = "EditingDisabled"
        /\ err \in {"NoSuchForm", "SigninRequired", "ClosedForm", "EditingDisabled"}
               => Rejected(LastResponse)
        /\ \A i \in 1..(Len(requests) - 1) : ~Rejected(requests[i].resp)
        /\ last_op.op = "load" => Len(requests) = 1

\* C28 happens: the second POST of a submit was answered with the status
\* 404 and a URL on accounts.google.com that ends in closedform, and the
\* submit raised NoSuchForm.
C28_Witness ==
    /\ last_op.op = "submit" /\ Len(requests) = 2
    /\ LastResponse.status = 404
    /\ LastResponse.url = AccountsUrl("closedform")
    /\ err = "NoSuchForm"

\* A load was answered with the status 200 and a URL on accounts.google.com
\* that ends in closedform, and raised SigninRequired.
LoadAsksSignIn ==
    /\ last_op.op = "load" /\ requests # <<>>
    /\ LastResponse.status = 200
    /\ LastResponse.url = AccountsUrl("closedform")
    /\ err = "SigninRequired" /\ ~is_loaded

-----------------------------------------------------------------------------
(* The page graph under every operation of a form. *)

\* The documents: layouts of one and two pages behind a dropdown with
\* actions, and the layout of two pages opened by a link that prefills the
\* dropdown.
FrameDocuments ==
    {WalkDocument(<<>>), WalkDocument(<<NEXT>>), WalkDocument(<<SUBMIT>>)}
    \cup {[q \in DOMAIN WalkDocument(<<NEXT>>) \cup {"prefilled"} |->
              IF q = "prefilled" THEN [r \in {<<0, 1>>} |-> <<ValA>>]
              ELSE WalkDocument(<<NEXT>>)[q]]}

LoadFrame == last_op.op \in {"init", "load"} /\ \E doc \in FrameDocuments : Load(doc)

SetFrameValue ==
    \E p \in 0..(Len(pages) - 1) : \E e \in 1..Len(pages[p + 1].elements) :
        \E v \in {Value_EMPTY, Str(ValA), Str(ValB), Str(ValZ)} : SetValue(p, e, v)

FillFrame ==
    \E cb \in {c \in Callbacks : c.short = PyNone}
              \cup {NoCallback,
                    [given |-> TRUE, short |-> Str(TextA), drop |-> Str(ValZ), pick |-> 1],
                    [given |-> TRUE, short |-> Value_DEFAULT, drop |-> Str(ValB), pick |-> 1]} :
        Fill(cb, TRUE)

\* Form.submit(), step by step or with an emulated history.
SubmitFrame == \E emulate_history \in BOOLEAN : Submit(FALSE, FALSE, emulate_history)

NextFrame ==
    \/ LoadFrame
    \/ SetFrameValue
    \/ ValidateAnyElement
    \/ Validate
    \/ FillFrame
    \/ Reset
    \/ Clear
    \/ SubmitFrame

SpecFrame == Init /\ [][NextFrame]_vars

\* The resolved targets: of every page its default successor and whether it
\* has one, and of every option of its elements the target.
OptionTargets(el) == [o \in DOMAIN el.options |-> el.options[o].next_page]
PageTargets(pg) ==
    [next_page |-> pg.next_page,
     has_default_next_page |-> pg.has_default_next_page,
     options |-> [e \in DOMAIN pg.elements |-> OptionTargets(pg.elements[e])]]
Targets == [k \in DOMAIN pages |-> PageTargets(pages[k])]

\* C29: a call other than load (set_value, validate of an element or of the
\* form, fill, reset, clear, submit) leaves the target of every option and
\* the default successor of every page as they were.
C29_TargetsFixed ==
    [][last_op'.op # "load" => Targets' = Targets]_vars

\* C29 happens: a reset put the prefilled choice back into the dropdown of a
\* form whose first option has a resolved target and whose first page has a
\* default successor.
C29_Witness ==
    /\ last_op.op = "reset" /\ is_loaded
    /\ pages[1].next_page # None
    /\ pages[1].elements[1].options[1].next_page # None
    /\ pages[1].elements[1].value # <<>>

-----------------------------------------------------------------------------
(* The state of the form across a submit. *)

\* C30: a submit, step by step or with an emulated history, successful or
\* not, leaves the pages with the values of their elements, the selected
\* and the unvalidated pages, is_loaded, is_validated and the stored fbzx,
\* history and draft as they were; so a submit that follows a submit which
\* passed the checks of the form's state passes them too.
C30_SubmitKeepsState ==
    [][last_op'.op = "submit" =>
          /\ pages' = pages
          /\ selected_pages' = selected_pages
          /\ unvalidated_pages' = unvalidated_pages
          /\ is_loaded' = is_loaded
          /\ is_validated' = is_validated
          /\ tokens' = tokens
          /\ (last_op.op = "submit" /\ err \notin {"FormNotLoaded", "FormNotValidated"})
                 => err' \notin {"FormNotLoaded", "FormNotValidated"}]_vars

\* C30 happens: a submit with an emulated history on a form of two pages or
\* more went through, and the form is validated and holds its values and
\* tokens.
C30_Witness ==
    /\ last_op.op = "submit" /\ last_op.emulate_history /\ err = "ok"
    /\ requests # <<>>
    /\ Len(pages) >= 2
    /\ is_validated
    /\ pages[2].elements[1].value # <<>>
    /\ tokens.history = <<0>>

\* A submit that a response ended with an error left the form validated.
FailedSubmitKeepsValidated ==
    /\ last_op.op = "submit" /\ ~last_op.emulate_history
    /\ err = "RuntimeError" /\ Len(requests) = 2
    /\ is_validated

-----------------------------------------------------------------------------
(* Validated forms: load, set_value, validate, fill, reset and clear. *)

\* The documents: the layouts of one and two pages behind a dropdown with
\* actions (the second page holds a required text input), a form of one
\* page with a required dropdown and a text input, and that form opened by
\* a link that prefills the dropdown.
SinglePageDocument ==
    [elements |-> <<WireDropdown(TRUE, PlainOptions(2)), WireShort(FALSE)>>,
     send_receipt |-> "UNUSED", signin_required |-> FALSE,
     fbzx |-> <<"f">>, draft |-> LoadedDraft]
SafetyDocuments ==
    {WalkDocument(<<>>), WalkDocument(<<NEXT>>), WalkDocument(<<SUBMIT>>),
     SinglePageDocument}
    \cup {[q \in DOMAIN SinglePageDocument \cup {"prefilled"} |->
              IF q = "prefilled" THEN [r \in {<<0, 1>>} |-> <<OptionName(1)>>]
              ELSE SinglePageDocument[q]]}

LoadSafety == last_op.op \in {"init", "load"} /\ \E doc \in SafetyDocuments : Load(doc)

SetSafetyValue ==
    \E p \in 0..(Len(pages) - 1) : \E e \in 1..Len(pages[p + 1].elements) :
        \E v \in IF pages[p + 1].elements[e].kind = "SHORT"
                 THEN {Value_EMPTY, Str(TextA), Str(TextNL)}
                 ELSE {Value_EMPTY, Str(ValA), Str(ValB), Str(ValC), Str(OptionName(1))} :
            SetValue(p, e, v)

NextSafety ==
    \/ LoadSafety
    \/ SetSafetyValue
    \/ ValidateAnyElement
    \/ Validate
    \/ FillAny
    \/ Reset
    \/ Clear

SpecSafety == Init /\ [][NextSafety]_vars

\* Every input element of every page of the realized path passes its own
\* validation.
PathPassesValidation ==
    \A i \in 1..Len(RealizedPath(FormState)) :
        RealizedPath(FormState)[i] # SUBMIT =>
            \A e \in 1..Len(PageAt(FormState, RealizedPath(FormState)[i]).elements) :
                validate_entry(ElemAt(FormState, RealizedPath(FormState)[i], e)) = "ok"

\* C31 as stated: whenever is_validated is true, every input element of
\* every page of the realized path passes its own validation, a form of one
\* page right after its load included.
C31_ValidatedPathPasses ==
    (is_loaded /\ is_validated) => PathPassesValidation

\* C31 happens: a form of one page with a required dropdown has just been
\* loaded, the dropdown is empty, and is_validated is true.
C31_Witness ==
    /\ last_op.op = "load" /\ is_loaded /\ is_validated
    /\ Len(pages) = 1
    /\ pages[1].elements[1].required /\ pages[1].elements[1].value = <<>>

-----------------------------------------------------------------------------
(* Termination of the walk of Form.fill and Form.validate. *)

ValidateFindsLoop ==
    /\ is_loaded /\ last_op.op = "validate" /\ err = "InfiniteLoop"
    /\ pages[1].elements[1].value = <<ValA>>

-----------------------------------------------------------------------------
(* A walk that raises. *)

\* The last call was a Form.fill or Form.validate on a loaded form that
\* ended with an exception.
FailedWalk ==
    /\ is_loaded /\ last_op.op \in {"fill", "validate"}
    /\ err \notin {"ok", "Hang"}

\* C33: after a Form.fill or Form.validate that raised, is_validated is
\* false, and a submit that follows raises FormNotValidated.
C33_FailedWalkNotValidated ==
    [][/\ FailedWalk' => ~is_validated'
       /\ (FailedWalk /\ last_op'.op = "submit") => err' = "FormNotValidated"]_vars

\* C33 happens: Form.validate raised InfiniteLoop on a form whose first
\* dropdown leads back to the first page, and the form is not validated.
C33_Witness ==
    /\ FailedWalk /\ last_op.op = "validate" /\ err = "InfiniteLoop"
    /\ ~is_validated
    /\ pages[1].elements[1].next_page = 0

-----------------------------------------------------------------------------
(* A set_value that raises. *)

\* C34 as stated: a set_value that raises leaves the element as it was
\* before the call: its values, its "Other" value and its next_page.
C34_FailedSetValueKeepsElement ==
    [][(last_op'.op = "set_value" /\ err' # "ok") =>
           ElemAt(FormState', last_op'.p, last_op'.e)
               = ElemAt(FormState, last_op'.p, last_op'.e)]_vars

\* C34 happens: a set_value with a value that is no option raised
\* InvalidChoice on a dropdown that holds an option with a target; the
\* dropdown still holds the option and its next_page is None.
C34_Witness ==
    /\ last_op.op = "set_value" /\ err = "InvalidChoice"
    /\ LastElement.value # <<>>
    /\ SelectedTarget(LastElement) # None
    /\ LastElement.next_page = None

-----------------------------------------------------------------------------
(* The next page of an action element. *)

\* The documents: forms of one to three pages whose first page holds a
\* dropdown with actions and a radio with an "Other" option; the radio's
\* options and its "Other" option carry actions or not.
TransitionDocuments ==
    {[elements |-> <<WireDropdown(FALSE, ActionOptions), WireRadio(FALSE, c[1], c[2])>>
                   \o LaterPages(c[3], 1),
      send_receipt |-> "UNUSED", signin_required |-> FALSE,
      fbzx |-> <<"f">>, draft |-> LoadedDraft] :
        c \in {ActionOptions, PlainOptions(2)} \X {None, SUBMIT, FIRST}
              \X {<<>>, <<NEXT>>, <<NEXT, NEXT>>}}

LoadTransitions ==
    last_op.op \in {"init", "load"} /\ \E doc \in TransitionDocuments : Load(doc)

SetTransitionValue ==
    \E p \in 0..(Len(pages) - 1) : \E e \in 1..Len(pages[p + 1].elements) :
        \E v \in IF pages[p + 1].elements[e].kind = "SHORT" THEN {Str(TextA)}
                 ELSE {Value_EMPTY, Str(ValA), Str(ValB), Str(ValC), Str(OptionName(1)),
                       Str(TextX), Str(<<>>)} :
            SetValue(p, e, v)

NextTransitions ==
    \/ LoadTransitions
    \/ SetTransitionValue

SpecTransitions == Init /\ [][NextTransitions]_vars

\* The resolved target of the option an element holds: of the option with
\* the element's value, of the "Other" option when the element holds an
\* "Other" value, None when the element is empty or the option has no
\* action.
OptionTarget(o) == IF o.is_action THEN o.next_page ELSE None
ChosenTarget(el) ==
    IF el.value # <<>> THEN OptionTarget(el.options[find_option(el, Str(el.value[1]))])
    ELSE IF "other_value" \in DOMAIN el /\ el.other_value # PyNone /\ el.other_action # None
    THEN el.other_next_page
    ELSE None

\* C35: after a set_value that succeeded on a Dropdown or a Radio, whatever
\* calls came before, the element's next_page is the resolved target of the
\* option it holds, the "Other" option included, and None when it is empty
\* or the option carries no action.
C35_NextPageFollowsChoice ==
    (last_op.op = "set_value" /\ err = "ok"
        /\ LastElement.kind \in {"DROPDOWN", "RADIO"})
    => LastElement.next_page = ChosenTarget(LastElement)

\* C35 happens: after other calls a radio was set to a value that is none
\* of its options, and its next_page is the target of its "Other" option,
\* the submit page.
C35_Witness ==
    /\ last_op.op = "set_value" /\ err = "ok"
    /\ LastElement.kind = "RADIO"
    /\ LastElement.value = <<>> /\ LastElement.other_value = Str(TextX)
    /\ LastElement.other_next_page = SUBMIT
    /\ LastElement.next_page = SUBMIT
    /\ pages[1].elements[1].value # <<>>

\* A radio that holds an option without an action has no next page.
PlainChoiceNoNextPage ==
    /\ last_op.op = "set_value" /\ err = "ok"
    /\ LastElement.kind = "RADIO" /\ LastElement.value = <<OptionName(1)>>
    /\ Len(pages) >= 2
    /\ LastElement.next_page = None

-----------------------------------------------------------------------------
(* The selected and the unvalidated pages. *)

\* The last call was a set_value that succeeded on an element whose
\* options carry live actions: it invalidated the path.
InvalidatedPath ==
    /\ last_op.op = "set_value" /\ err = "ok"
    /\ HasLiveActions(LastElement)

UnvalidatedSelectedPage ==
    /\ is_loaded /\ unvalidated_pages # {}
    /\ unvalidated_pages \subseteq selected_pages

-----------------------------------------------------------------------------
(* The default callback on Checkboxes and grids: one-page forms that hold   *)
(* one Checkboxes element (of no to MaxOptions options, with or without an  *)
(* "Other" option) or one grid of one or two columns, each with every       *)
(* validator of interest.  The element takes what default_callback returns  *)
(* for it, and is validated.                                                *)

Perms(n) == {s \in [1..n -> 1..n] : \A i, j \in 1..n : i # j => s[i] # s[j]}

NoDraw == [order |-> <<>>, keep |-> {}, rowperm |-> <<>>, rowdraw |-> <<>>, cells |-> <<>>]

\* The draws default_callback can make on the element.
Draws(el) ==
    IF el.kind = "CHECKBOXES" \/ el.validator # NoValidator
    THEN {[NoDraw EXCEPT !.order = order, !.keep = keep, !.rowperm = rowperm,
                         !.rowdraw = rowdraw] :
             order \in Perms(Len(el.options)), keep \in SUBSET (1..Len(el.options)),
             rowperm \in (IF el.kind = "GRID" /\ ~el.multichoice
                          THEN Perms(el.rows) ELSE {<<>>}),
             rowdraw \in (IF el.kind = "GRID" /\ el.multichoice
                          THEN [1..Len(el.options) -> 1..el.rows] ELSE {<<>>})}
    ELSE {[NoDraw EXCEPT !.cells = cells] :
             cells \in [1..el.rows ->
                           IF el.multichoice
                           THEN {[order |-> order, keep |-> keep, pick |-> 0] :
                                    order \in Perms(Len(el.options)),
                                    keep \in SUBSET (1..Len(el.options))}
                           ELSE {[order |-> <<>>, keep |-> {}, pick |-> pick] :
                                    pick \in 1..(Len(el.options)
                                                 + (IF el.required THEN 0 ELSE 1))}]}

DefaultElements ==
    {WireValidated("CHECKBOXES", req, PlainOptions(n), other, 0, TRUE, va) :
        req \in BOOLEAN, n \in 0..MaxOptions, other \in BOOLEAN,
        va \in CheckboxValidators}
    \cup {WireValidated("GRID", req, PlainOptions(cols), FALSE, rows, multi, va) :
             req \in BOOLEAN, cols \in 1..2, rows \in 1..MaxRows,
             multi \in BOOLEAN, va \in GridValidators}

\* Form.load before any other call.
LoadDefaults ==
    /\ last_op.op = "init"
    /\ \E w \in DefaultElements :
          Load([elements |-> <<w>>, send_receipt |-> "UNUSED", signin_required |-> FALSE,
                fbzx |-> <<"f">>, draft |-> LoadedDraft])

\* default_callback raised e: the element is left alone.
CallbackRaised(p, e, exc) ==
    /\ Running
    /\ err' = exc
    /\ last_op' = Op("default_callback", p, e)
    /\ scen' = "none"
    /\ requests' = <<>>
    /\ UNCHANGED <<is_loaded, pages, selected_pages, unvalidated_pages,
                   found_full_path, settings, tokens, prefilled_data>>

\* elem.set_value(default_callback(elem, 0, 0)) on the element of the form.
SetDefaultValue ==
    /\ is_loaded
    /\ \E d \in Draws(pages[1].elements[1]) :
          IF default_callback(pages[1].elements[1], d).err = "ok"
          THEN SetValue(0, 1, default_callback(pages[1].elements[1], d).v)
          ELSE CallbackRaised(0, 1, default_callback(pages[1].elements[1], d).err)

NextDefaults ==
    \/ LoadDefaults
    \/ SetDefaultValue
    \/ ValidateAnyElement

SpecDefaults == Init /\ [][NextDefaults]_vars

\* The selection the element holds is a legal one: not empty when the
\* element is required (every row, for a grid), and within the constraint
\* of a validator of a known type, unless it is empty.
LegalSelection(el) ==
    /\ el.other_value = PyNone
    /\ el.required => IF el.kind = "GRID" THEN \A r \in 1..el.rows : el.value[r] # <<>>
                      ELSE el.value # <<>>
    /\ (KnownValidator(el) /\ ~is_empty(el))
       => IF el.kind = "GRID" THEN same_column(el) = PyNone
          ELSE CountOk(el.validator.subtype, Len(el.value), el.validator.args[1])

\* C37: whatever default_callback returns for a Checkboxes element or a
\* grid without raising, set_value takes it without raising, the element
\* then holds a legal selection (at least one option when it is required,
\* the count or the exclusive columns of its validator kept), and a
\* validate() that follows does not raise.
C37_DefaultIsLegal ==
    /\ []((is_loaded /\ last_op.op = "set_value")
          => (err = "ok" /\ LegalSelection(TheElement)))
    /\ [][(is_loaded /\ last_op.op = "set_value" /\ last_op'.op = "validate_element")
              => err' = "ok"]_vars

\* C37: a required Checkboxes element with three options and AT_LEAST(2)
\* holds two of them after set_value(default_callback(...)), and validate()
\* passed.
C37_Witness ==
    /\ is_loaded /\ last_op = Op("validate_element", 0, 1) /\ err = "ok"
    /\ TheElement.kind = "CHECKBOXES" /\ TheElement.required
    /\ TheElement.validator = NewValidator("DEFAULT", "AT_LEAST", <<2>>, FALSE)
    /\ Len(TheElement.options) = 3 /\ Len(TheElement.value) = 2

\* A required grid of two rows and two columns with EXCLUSIVE_COLUMNS holds
\* one column per row, each once.
DefaultExclusiveGrid ==
    /\ is_loaded /\ last_op = Op("validate_element", 0, 1) /\ err = "ok"
    /\ TheElement.kind = "GRID" /\ TheElement.required /\ TheElement.multichoice
    /\ TheElement.validator = NewValidator("DEFAULT", "EXCLUSIVE_COLUMNS", <<>>, FALSE)
    /\ TheElement.value = <<<<OptionName(2)>>, <<OptionName(1)>>>>

\* The callback raised for a required element that needs "Other" to meet
\* its validator.
DefaultNeedsOther ==
    /\ is_loaded /\ last_op.op = "default_callback" /\ err = "NotImplementedError"

-----------------------------------------------------------------------------
(* The draft of a submit with an emulated history (SpecSubmit). *)

\* The draft entries of the pages path[i..n], in that order.
RECURSIVE DraftsOf(_, _, _, _)
DraftsOf(F, path, i, n) ==
    IF i > n THEN <<>> ELSE Page_draft(F, path[i]) \o DraftsOf(F, path, i + 1, n)

\* The request that submits the final page.
FinalRequest == requests[Len(requests)].req

\* C38: the draft of the request that submits the final page of an emulated
\* history is the loaded draft with its first item replaced: by None on a
\* path of one page, else by the draft entries of the pages of the path
\* before the last, in path order.  No entry of the last page is in it; the
\* payload of the request is that of the last page.
C38_EmulatedDraft ==
    (Emulated /\ ~FinalRequest.back) =>
        /\ FinalRequest.draft =
              [tokens.draft EXCEPT !.d0 =
                  IF Len(RealizedPath(FormState)) = 1 THEN PyNone
                  ELSE [t |-> "list",
                        entries |-> DraftsOf(FormState, RealizedPath(FormState), 1,
                                             Len(RealizedPath(FormState)) - 1)]]
        /\ FinalRequest.payload = Page_payload(FormState, LastPage(FormState))
        /\ FinalRequest.draft.d0 # PyNone
           => \A k \in 1..Len(FinalRequest.draft.d0.entries) :
                 FinalRequest.draft.d0.entries[k].entry[1] # LastPage(FormState)

\* C38: a form loaded with a pre-filled draft was submitted on a path of two
\* pages: the draft holds the entry of page 0 as it was set, not as it was
\* loaded, and the payload holds the text of page 1.
C38_Witness ==
    /\ Emulated /\ err = "ok" /\ tokens.draft = PrefilledDraft
    /\ RealizedPath(FormState) = <<0, 1>>
    /\ FinalRequest.draft.d0.entries = <<[entry |-> <<0, 1>>, value |-> <<ValB>>, other |-> 0]>>
    /\ FinalRequest.payload = <<[entry |-> <<1, 1>>, value |-> <<TextA>>]>>

\* A one-page form loaded with a pre-filled draft is submitted with no
\* draft entries.
PrefilledDraftDiscarded ==
    /\ Emulated /\ err = "ok" /\ tokens.draft = PrefilledDraft
    /\ Len(RealizedPath(FormState)) = 1
    /\ FinalRequest.draft.d0 = PyNone

\* On a path of three pages the draft holds the entries of page 0 and of
\* page 1, in that order.
DraftInPathOrder ==
    /\ Emulated /\ err = "ok"
    /\ Len(RealizedPath(FormState)) = 3
    /\ Len(FinalRequest.draft.d0.entries) = 2
    /\ FinalRequest.draft.d0.entries[1].entry = <<0, 1>>
    /\ FinalRequest.draft.d0.entries[2].entry = <<1, 1>>

-----------------------------------------------------------------------------
(* Loads that fail: at the GET, at the response, at the tokens of the page  *)
(* or in the document; and the calls on a form that is not loaded.          *)

\* A document whose second page names a page that does not exist.
BrokenDocument ==
    [WalkDocument(<<NEXT, NEXT>>) EXCEPT
        !.elements = <<WireDropdown(FALSE, ActionOptions), WirePage(1, UnknownId),
                       WireShort(TRUE), WirePage(2, NEXT)>>]

FailingDocuments == {WalkDocument(<<>>), WalkDocument(<<NEXT>>), BrokenDocument}

\* Form.load that raises after _clear and before _parse: exc at the GET
\* (no response), or ParseError for a page without the form's data, with
\* the tokens found in the page.
LoadAborted(exc, toks, log) ==
    /\ Running
    /\ is_loaded' = FALSE
    /\ SetForm([pages |-> <<>>, sel |-> {}, unval |-> {}, found |-> FALSE])
    /\ settings' = DefaultSettings
    /\ tokens' = toks
    /\ prefilled_data' = <<>>
    /\ err' = exc
    /\ last_op' = Op("load", 0, 0)
    /\ scen' = "none"
    /\ requests' = log

\* Form.load(url): the GET fails, or it is answered with a response that is
\* rejected, or with a page that holds no form data, or with a document.
Form_load ==
    \/ LoadAborted("RequestException", NoTokens, <<>>)
    \/ \E resp \in LoadResponses :
          \/ LoadRejected(resp)
          \/ /\ load_result(resp) = "ok"
             /\ \/ \E toks \in {NoTokens, [fbzx |-> <<"f">>, history |-> <<0>>,
                                           draft |-> LoadedDraft]} :
                      LoadAborted("ParseError", toks, <<[req |-> GetRequest, resp |-> resp]>>)
                \/ \E doc \in FailingDocuments : Load(doc)

\* Form.reload(): FormNotLoaded, or a load of the form's URL.
Reload ==
    /\ Running
    /\ \/ NotLoaded("reload")
       \/ is_loaded /\ Form_load

SetLoadedValue ==
    \E p \in 0..(Len(pages) - 1) : \E e \in 1..Len(pages[p + 1].elements) :
        \E v \in {Str(ValB), Str(ValC)} : SetValue(p, e, v)

FillLoaded ==
    \E cb \in {NoCallback, [given |-> TRUE, short |-> Str(TextA), drop |-> Str(ValB),
                            pick |-> 1]} : Fill(cb, TRUE)

NextLoads ==
    \/ Form_load
    \/ Reload
    \/ SetLoadedValue
    \/ Validate
    \/ FillLoaded
    \/ Reset
    \/ Clear
    \/ SubmitFrame

SpecLoads == Init /\ [][NextLoads]_vars

\* No element holds a value or a next page.
NothingEntered ==
    \A p \in 1..Len(pages) : \A e \in 1..Len(pages[p].elements) :
        pages[p].elements[e].value = <<>> /\ pages[p].elements[e].next_page = None

\* The calls that need a loaded form.
NeedLoaded == {"fill", "validate", "reset", "clear", "submit", "reload"}

ReloadClosed ==
    /\ ~is_loaded /\ pages = <<>>
    /\ last_op.op = "load" /\ err = "ClosedForm"

\* A load found no form data in the page.
LoadParseError ==
    /\ ~is_loaded /\ last_op.op = "load" /\ err = "ParseError"

====
